---------------------------- MODULE Spec2Model ----------------------------
(***************************************************************************)
(* Star Ship: the simulation core of the arcade game (ship, asteroids,     *)
(* coins, spawners, collision tests and the Game controller).              *)
(*                                                                         *)
(* Fixed-point units.  JavaScript numbers are modelled as integers:        *)
(*   lengths     in 1/100 pixel                (Px(n) is n pixels)         *)
(*   velocities  in 1/100 pixel per second                                 *)
(*   times       in milliseconds (the code's deltaTime is in seconds; the  *)
(*               model's deltaTime holds deltaTime * 1000)                 *)
(*   animation progress (collectAnimation) in 1/1000                       *)
(* A product that is not a whole number of units is rounded toward zero.   *)
(***************************************************************************)
EXTENDS Integers, Sequences, FiniteSets, TLC

VARIABLES
    state,          \* Game.state
    score,          \* Game.score
    level,          \* Game.level
    levelTime,      \* Game.levelTime (ms)
    deltaTime,      \* Game.deltaTime (ms)
    sinceLast,      \* performance.now() - Game.lastTime (ms)
    width,          \* Game.width (pixels)
    height,         \* Game.height (pixels)
    ship,           \* Game.spaceship (NullShip before the first startGame)
    asteroids,      \* Game.asteroids
    coins,          \* Game.coins
    asteroidTimer,  \* Game.asteroidSpawner.spawnTimer (ms)
    coinTimer,      \* Game.coinSpawner.spawnTimer (ms)
    events,         \* audioManager.play() notifications raised by the last step
    lastCall,       \* the handler or method that ran last
    ret,            \* what the last hit() / collect() returned
    sinceHit,       \* ms of update() time since the last successful hit(), -1 if none
    collectedCount, \* pickups whose collected flag has been set since the last game start
    frames,         \* Playing frames run since the last game start
    inputs,         \* arrow-key and resize events delivered since the last game start
    calls,          \* method calls made on the object under test
    config,         \* the configuration the ship and the spawners were constructed with
    from,           \* Game.state before the last handler ran
    clock,          \* wall-clock bookkeeping around pause and resume (ms)
    call            \* the last call of a function of collision.js or of a
                    \* spawner's interval: its arguments and what it returned

vars == <<state, score, level, levelTime, deltaTime, sinceLast, width, height,
          ship, asteroids, coins, asteroidTimer, coinTimer, events, lastCall,
          ret, sinceHit, collectedCount, frames, inputs, calls, config, from,
          clock, call>>

----------------------------------------------------------------------------
(* Arithmetic helpers *)

\* no function has been called
NoCall == [fn |-> "none"]

Px(n) == n * 100

Abs(x) == IF x < 0 THEN -x ELSE x

Min(a, b) == IF a < b THEN a ELSE b

Max(a, b) == IF a > b THEN a ELSE b

\* a / b for b > 0, rounded toward zero
TruncDiv(a, b) == IF a >= 0 THEN a \div b ELSE -((-a) \div b)

\* rate (units per second) * dt (ms)
PerSecond(rate, dt) == TruncDiv(rate * dt, 1000)

----------------------------------------------------------------------------
(* CONFIG.spaceship and the Spaceship class *)

startX == 100
speed == 400
lives == 3
invincibilityTime == 2000

shipWidth == 70
shipHeight == 50
acceleration == 2000
deceleration == 1500
knockback == 200

NullShip == [null |-> TRUE]

\* new Spaceship(config, width, canvasHeight): the constructor copies the
\* configuration as it is
SpaceshipFromConfig(cfg, canvasHeight) ==
    [null |-> FALSE,
     y |-> Px(canvasHeight) \div 2,
     velocity |-> 0,
     maxSpeed |-> Px(cfg.speed),
     moveUp |-> FALSE,
     moveDown |-> FALSE,
     lives |-> cfg.lives,
     maxLives |-> cfg.lives,
     isInvincible |-> FALSE,
     invincibilityTimer |-> 0,
     canvasHeight |-> canvasHeight]

\* new Spaceship(CONFIG.spaceship, width, canvasHeight)
NewSpaceship(canvasHeight) ==
    SpaceshipFromConfig([speed |-> speed, lives |-> lives], canvasHeight)

\* const margin = this.height / 2 + 10
ShipMargin == Px(shipHeight) \div 2 + Px(10)

\* a target velocity that lets moveUp win when both flags are set
TargetVelocityUpWins(s) ==
    IF s.moveUp THEN -s.maxSpeed
    ELSE IF s.moveDown THEN s.maxSpeed
    ELSE 0

TargetVelocity(s) ==
    IF s.moveUp /\ ~s.moveDown THEN -s.maxSpeed
    ELSE IF s.moveDown /\ ~s.moveUp THEN s.maxSpeed
    ELSE 0

\* SteerVelocity with the two rates exchanged
SteerVelocitySwapsRates(s, dt) ==
    LET target == TargetVelocity(s) IN
    IF target # 0
    THEN LET accelDirection == IF target > 0 THEN 1 ELSE -1
             v == s.velocity + accelDirection * PerSecond(Px(deceleration), dt)
         IN  IF Abs(v) > s.maxSpeed THEN accelDirection * s.maxSpeed ELSE v
    ELSE IF s.velocity > 0
         THEN Max(0, s.velocity - PerSecond(Px(acceleration), dt))
         ELSE IF s.velocity < 0
              THEN Min(0, s.velocity + PerSecond(Px(acceleration), dt))
              ELSE s.velocity

\* SteerVelocity that decelerates past zero
SteerVelocityOvershoots(s, dt) ==
    LET target == TargetVelocity(s) IN
    IF target # 0
    THEN LET accelDirection == IF target > 0 THEN 1 ELSE -1
             v == s.velocity + accelDirection * PerSecond(Px(acceleration), dt)
         IN  IF Abs(v) > s.maxSpeed THEN accelDirection * s.maxSpeed ELSE v
    ELSE IF s.velocity > 0
         THEN s.velocity - PerSecond(Px(deceleration), dt)
         ELSE IF s.velocity < 0
              THEN s.velocity + PerSecond(Px(deceleration), dt)
              ELSE s.velocity

\* SteerVelocity without the clamp to maxSpeed
SteerVelocityNoClamp(s, dt) ==
    LET target == TargetVelocity(s) IN
    IF target # 0
    THEN LET accelDirection == IF target > 0 THEN 1 ELSE -1
         IN  s.velocity + accelDirection * PerSecond(Px(acceleration), dt)
    ELSE IF s.velocity > 0
         THEN Max(0, s.velocity - PerSecond(Px(deceleration), dt))
         ELSE IF s.velocity < 0
              THEN Min(0, s.velocity + PerSecond(Px(deceleration), dt))
              ELSE s.velocity

\* the velocity after the accelerate / decelerate step of updateMovement
SteerVelocity(s, dt) ==
    LET target == TargetVelocity(s) IN
    IF target # 0
    THEN LET accelDirection == IF target > 0 THEN 1 ELSE -1
             v == s.velocity + accelDirection * PerSecond(Px(acceleration), dt)
         IN  IF Abs(v) > s.maxSpeed THEN accelDirection * s.maxSpeed ELSE v
    ELSE IF s.velocity > 0
         THEN Max(0, s.velocity - PerSecond(Px(deceleration), dt))
         ELSE IF s.velocity < 0
              THEN Min(0, s.velocity + PerSecond(Px(deceleration), dt))
              ELSE s.velocity

\* a hard stop at the margin
BounceStops(v) == 0

\* the soft bounce: velocity magnitude * 0.3
Bounce(v) == (Abs(v) * 3) \div 10

\* EnforceBoundaries without the bottom-edge branch
EnforceBoundariesTopOnly(s, y, v) ==
    IF y < ShipMargin
    THEN [s EXCEPT !.y = ShipMargin, !.velocity = Bounce(v)]
    ELSE [s EXCEPT !.y = y, !.velocity = v]

\* the boundary step of updateMovement, on the position y reached with velocity v
EnforceBoundaries(s, y, v) ==
    IF y < ShipMargin
    THEN [s EXCEPT !.y = ShipMargin, !.velocity = Bounce(v)]
    ELSE IF y > Px(s.canvasHeight) - ShipMargin
         THEN [s EXCEPT !.y = Px(s.canvasHeight) - ShipMargin, !.velocity = -Bounce(v)]
         ELSE [s EXCEPT !.y = y, !.velocity = v]

UpdateMovement(s, dt) ==
    LET v == SteerVelocity(s, dt)
        y == s.y + PerSecond(v, dt)
    IN  EnforceBoundaries(s, y, v)

\* UpdateInvincibility counting the timer down in seconds, not milliseconds
UpdateInvincibilitySeconds(s, dt) ==
    IF s.isInvincible
    THEN LET t == s.invincibilityTimer - TruncDiv(dt, 1000) IN
         IF t <= 0
         THEN [s EXCEPT !.isInvincible = FALSE, !.invincibilityTimer = 0]
         ELSE [s EXCEPT !.invincibilityTimer = t]
    ELSE s

UpdateInvincibility(s, dt) ==
    IF s.isInvincible
    THEN LET t == s.invincibilityTimer - dt IN
         IF t <= 0
         THEN [s EXCEPT !.isInvincible = FALSE, !.invincibilityTimer = 0]
         ELSE [s EXCEPT !.invincibilityTimer = t]
    ELSE s

\* Spaceship.update(deltaTime); updateEffects only touches the damage flash
ShipUpdate(s, dt) == UpdateInvincibility(UpdateMovement(s, dt), dt)

\* CanHit without the lives > 0 test
CanHitIgnoringLives(s) == ~s.isInvincible

\* CanHit without the invincibility test
CanHitWhileInvincible(s) == s.lives > 0

\* whether hit() applies damage
CanHit(s) == ~s.isInvincible /\ s.lives > 0

\* ShipHit that does not start the invincibility window
ShipHitNoInvincibility(s) ==
    IF CanHit(s)
    THEN [s EXCEPT !.lives = s.lives - 1, !.velocity = -Px(knockback)]
    ELSE s

\* ShipHit that starts an invincibility window of half the configured time
ShipHitHalfInvincibility(s) ==
    IF CanHit(s)
    THEN [s EXCEPT !.lives = s.lives - 1,
                   !.isInvincible = TRUE,
                   !.invincibilityTimer = invincibilityTime \div 2,
                   !.velocity = -Px(knockback)]
    ELSE s

\* the ship after hit()
ShipHit(s) ==
    IF CanHit(s)
    THEN [s EXCEPT !.lives = s.lives - 1,
                   !.isInvincible = TRUE,
                   !.invincibilityTimer = invincibilityTime,
                   !.velocity = -Px(knockback)]
    ELSE s

\* ShipReset that leaves the invincibility timer running
ShipResetKeepsTimer(s, canvasHeight) ==
    [s EXCEPT !.y = Px(canvasHeight) \div 2,
              !.velocity = 0,
              !.lives = s.maxLives,
              !.isInvincible = FALSE,
              !.moveUp = FALSE,
              !.moveDown = FALSE,
              !.canvasHeight = canvasHeight]

\* Spaceship.reset(canvasHeight)
ShipReset(s, canvasHeight) ==
    [s EXCEPT !.y = Px(canvasHeight) \div 2,
              !.velocity = 0,
              !.lives = s.maxLives,
              !.isInvincible = FALSE,
              !.invincibilityTimer = 0,
              !.moveUp = FALSE,
              !.moveDown = FALSE,
              !.canvasHeight = canvasHeight]

ConstrainToCanvas(s) ==
    IF s.y < ShipMargin
    THEN [s EXCEPT !.y = ShipMargin]
    ELSE IF s.y > Px(s.canvasHeight) - ShipMargin
         THEN [s EXCEPT !.y = Px(s.canvasHeight) - ShipMargin]
         ELSE s

\* Spaceship.setCanvasHeight(height)
SetCanvasHeight(s, h) == ConstrainToCanvas([s EXCEPT !.canvasHeight = h])

\* Spaceship.getBounds(): the hitbox, 0.7 of the sprite
ShipBounds(s) ==
    LET hitW == (Px(shipWidth) * 7) \div 10
        hitH == (Px(shipHeight) * 7) \div 10
    IN  [x |-> Px(startX) - hitW \div 2,
         y |-> s.y - hitH \div 2,
         width |-> hitW,
         height |-> hitH]

----------------------------------------------------------------------------
(* collision.js *)

\* an overlap test that also accepts rectangles that only touch
checkAABBCollisionInclusive(a, b) ==
    /\ a.x <= b.x + b.width
    /\ a.x + a.width >= b.x
    /\ a.y <= b.y + b.height
    /\ a.y + a.height >= b.y

checkAABBCollision(a, b) ==
    /\ a.x < b.x + b.width
    /\ a.x + a.width > b.x
    /\ a.y < b.y + b.height
    /\ a.y + a.height > b.y

\* a circle test that also accepts a circle that only touches the rectangle
checkCircleRectCollisionInclusive(circle, rect) ==
    LET closestX == Max(rect.x, Min(circle.x, rect.x + rect.width))
        closestY == Max(rect.y, Min(circle.y, rect.y + rect.height))
        dx == circle.x - closestX
        dy == circle.y - closestY
        distanceSquared == dx * dx + dy * dy
    IN  distanceSquared <= circle.radius * circle.radius

checkCircleRectCollision(circle, rect) ==
    LET closestX == Max(rect.x, Min(circle.x, rect.x + rect.width))
        closestY == Max(rect.y, Min(circle.y, rect.y + rect.height))
        dx == circle.x - closestX
        dy == circle.y - closestY
        distanceSquared == dx * dx + dy * dy
    IN  distanceSquared < circle.radius * circle.radius

\* significant bits of the floating-point numbers of the rounded test (a
\* double has 53)
MantissaBits == 5

RECURSIVE Pow2(_)
Pow2(n) == IF n = 0 THEN 1 ELSE 2 * Pow2(n - 1)

\* the spacing of the floating-point numbers around magnitude a, from q up
RECURSIVE Quantum(_, _)
Quantum(a, q) == IF a < Pow2(MantissaBits) * q THEN q ELSE Quantum(a, 2 * q)

\* the floating-point number nearest to the integer n, ties to the even
\* mantissa
Fl(n) ==
    LET a    == Abs(n)
        q    == Quantum(a, 1)
        down == (a \div q) * q
        rest == a - down
        r    == IF 2 * rest < q THEN down
                ELSE IF 2 * rest > q THEN down + q
                ELSE IF (down \div q) % 2 = 0 THEN down ELSE down + q
    IN  IF n < 0 THEN -r ELSE r

\* a circle test that clamps to rect.width in place of rect.x + rect.width
checkCircleRectCollisionFlWidthOnly(circle, rect) ==
    LET right    == rect.width
        bottom   == rect.height
        closestX == Max(rect.x, Min(circle.x, Fl(right)))
        closestY == Max(rect.y, Min(circle.y, Fl(bottom)))
        dx       == circle.x - closestX
        dy       == circle.y - closestY
        dx2      == Fl(dx) * Fl(dx)
        dy2      == Fl(dy) * Fl(dy)
        sum      == Fl(dx2) + Fl(dy2)
        r2       == circle.radius * circle.radius
    IN  [result |-> Fl(sum) < Fl(r2),
         exact  |-> /\ Fl(right) = right /\ Fl(bottom) = bottom
                    /\ Fl(dx) = dx /\ Fl(dy) = dy
                    /\ Fl(dx2) = dx2 /\ Fl(dy2) = dy2
                    /\ Fl(sum) = sum /\ Fl(r2) = r2]

\* checkCircleRectCollision as floating-point arithmetic computes it: every
\* sum, difference and product is rounded to the nearest number; exact tells
\* whether any of them was
checkCircleRectCollisionFl(circle, rect) ==
    LET right    == rect.x + rect.width
        bottom   == rect.y + rect.height
        closestX == Max(rect.x, Min(circle.x, Fl(right)))
        closestY == Max(rect.y, Min(circle.y, Fl(bottom)))
        dx       == circle.x - closestX
        dy       == circle.y - closestY
        dx2      == Fl(dx) * Fl(dx)
        dy2      == Fl(dy) * Fl(dy)
        sum      == Fl(dx2) + Fl(dy2)
        r2       == circle.radius * circle.radius
    IN  [result |-> Fl(sum) < Fl(r2),
         exact  |-> /\ Fl(right) = right /\ Fl(bottom) = bottom
                    /\ Fl(dx) = dx /\ Fl(dy) = dy
                    /\ Fl(dx2) = dx2 /\ Fl(dy2) = dy2
                    /\ Fl(sum) = sum /\ Fl(r2) = r2]

----------------------------------------------------------------------------
(* CONFIG.asteroid, Asteroid and AsteroidSpawner *)

asteroidBaseSpeed == 200
asteroidSpeedIncreasePerLevel == 50
asteroidSpawnInterval == 1500
minSize == 30
maxSize == 60

\* values of Math.random(), in hundredths
Randoms == {0, 50}

\* a spawn speed that counts the first level as an increase
SpawnSpeedFromLevelZero(base, increase, lv) == Px(base + lv * increase)

\* Speed of an entity spawned at level lv
SpawnSpeed(base, increase, lv) == Px(base + (lv - 1) * increase)

\* a speed multiplier that ignores the level
SpeedMultiplierFlat(lv) == 10

\* speedMultiplier = 1 + (level - 1) * 0.1, in tenths
SpeedMultiplier(lv) == 10 + (lv - 1)

\* speed * speedMultiplier * deltaTime
Travel(spd, lv, dt) == TruncDiv(spd * SpeedMultiplier(lv) * dt, 10000)

\* new Asteroid(x, y, size, speed)
NewAsteroid(x, y, size, spd) ==
    [x |-> x, y |-> y, size |-> size, speed |-> spd, active |-> TRUE]

\* AsteroidUpdate that sets active from the position on every call
AsteroidUpdateReactivates(a, dt, lv) ==
    LET x == a.x - Travel(a.speed, lv, dt) IN
    [a EXCEPT !.x = x, !.active = ~(x < -(a.size * 2))]

\* Asteroid.update(deltaTime, speedMultiplier); the rotation is cosmetic
AsteroidUpdate(a, dt, lv) ==
    LET x == a.x - Travel(a.speed, lv, dt) IN
    [a EXCEPT !.x = x, !.active = IF x < -(a.size * 2) THEN FALSE ELSE a.active]

\* Asteroid.getCircularBounds()
AsteroidCircle(a) == [x |-> a.x, y |-> a.y, radius |-> (a.size * 3) \div 4]

\* the obstacle spawner's multiplier without its floor
AsteroidLevelMultiplierNoFloor(lv) == 100 - (lv - 1) * 5

\* AsteroidSpawner.update: Math.max(0.4, 1 - (level - 1) * 0.05), in hundredths
AsteroidLevelMultiplier(lv) == Max(40, 100 - (lv - 1) * 5)

\* adjustedInterval = spawnInterval * levelMultiplier (1/100 ms)
AdjustedInterval(interval, multiplier) == interval * multiplier

\* the spawner's timer has reached interval * multiplier / 100
IntervalReached(timer, interval, multiplier) == timer * 100 >= interval * multiplier

\* a spawner that carries the time beyond the interval over to the next one
SpawnerUpdateCarriesOver(timer, interval, multiplier, dt) ==
    LET t == timer + dt IN
    IF IntervalReached(t, interval, multiplier)
    THEN [spawnTimer |-> t - TruncDiv(interval * multiplier, 100), spawns |-> 1]
    ELSE [spawnTimer |-> t, spawns |-> 0]

\* AsteroidSpawner.update / CoinSpawner.update on the timer: the timer after
\* the call and the number of entities returned
SpawnerUpdate(timer, interval, multiplier, dt) ==
    LET t == timer + dt IN
    IF IntervalReached(t, interval, multiplier)
    THEN [spawnTimer |-> 0, spawns |-> 1]
    ELSE [spawnTimer |-> t, spawns |-> 0]

\* AsteroidSpawner.spawn(level), with the two Math.random() values drawn
SpawnAsteroid(lv, w, h, rSize, rY) ==
    LET size == Px(minSize) + (rSize * (Px(maxSize) - Px(minSize))) \div 100
        margin == size + Px(20)
        y == margin + TruncDiv(rY * (Px(h) - margin * 2), 100)
    IN  NewAsteroid(Px(w) + size, y, size,
                    SpawnSpeed(asteroidBaseSpeed, asteroidSpeedIncreasePerLevel, lv))

----------------------------------------------------------------------------
(* CONFIG.coin, Coin and CoinSpawner *)

coinBaseSpeed == 150
coinSpeedIncreasePerLevel == 30
coinSpawnInterval == 2000
coinSize == 30
coinPoints == 1

\* Math.sin(bobOffset) * bobAmount: the vertical bob of a coin (1/100 pixel)
Bobs == {-300, 300}

\* new Coin(x, y, size, speed, points); bob is Math.sin(bobOffset) * bobAmount
\* for the random phase the constructor draws
NewCoin(x, y, size, spd, points, bob) ==
    [x |-> x, y |-> y, baseY |-> y, size |-> size, speed |-> spd,
     points |-> points, active |-> TRUE, collected |-> FALSE,
     collectAnimation |-> 0, bob |-> bob]

\* CoinUpdate that does not advance the collection animation
CoinUpdateAnimationStalls(c, dt, lv, bob) ==
    IF c.collected
    THEN c
    ELSE LET x == c.x - Travel(c.speed, lv, dt)
             b == IF dt = 0 THEN c.bob ELSE bob
         IN  [c EXCEPT !.x = x,
                       !.bob = b,
                       !.y = c.baseY + b,
                       !.active = IF x < -(c.size * 2) THEN FALSE ELSE c.active]

\* Coin.update(deltaTime, speedMultiplier); bob is Math.sin(bobOffset) * bobAmount
\* once bobOffset has advanced by deltaTime * 3: the coin's own when deltaTime
\* is 0
CoinUpdate(c, dt, lv, bob) ==
    IF c.collected
    THEN LET progress == c.collectAnimation + dt * 5 IN
         [c EXCEPT !.collectAnimation = progress,
                   !.active = IF progress >= 1000 THEN FALSE ELSE c.active]
    ELSE LET x == c.x - Travel(c.speed, lv, dt)
             b == IF dt = 0 THEN c.bob ELSE bob
         IN  [c EXCEPT !.x = x,
                       !.bob = b,
                       !.y = c.baseY + b,
                       !.active = IF x < -(c.size * 2) THEN FALSE ELSE c.active]

\* CanCollect without the collected test
CanCollectIgnoringCollected(c) == c.active

\* whether collect() takes the coin
CanCollect(c) == ~c.collected /\ c.active

\* what collect() returns
CollectPoints(c) == IF CanCollect(c) THEN c.points ELSE 0

\* CoinCollect that leaves the collected flag unset
CoinCollectNoFlag(c) == c

\* CoinCollect that also deactivates the coin at once
CoinCollectDeactivates(c) ==
    IF ~c.collected /\ c.active
    THEN [c EXCEPT !.collected = TRUE, !.collectAnimation = 0, !.active = FALSE]
    ELSE c

\* the coin after collect()
CoinCollect(c) ==
    IF CanCollect(c)
    THEN [c EXCEPT !.collected = TRUE, !.collectAnimation = 0]
    ELSE c

\* Coin.getBounds()
CoinBounds(c) ==
    [x |-> c.x - c.size, y |-> c.y - c.size,
     width |-> c.size * 2, height |-> c.size * 2]

\* CoinSpawner.update: Math.max(0.5, 1 - (level - 1) * 0.03), in hundredths
CoinLevelMultiplier(lv) == Max(50, 100 - (lv - 1) * 3)

\* CoinSpawner.spawn(level), with the Math.random() values drawn
SpawnCoin(lv, w, h, rY, bob) ==
    LET size == Px(coinSize)
        margin == size + Px(50)
        y == margin + TruncDiv(rY * (Px(h) - margin * 2), 100)
    IN  NewCoin(Px(w) + size, y, size,
                SpawnSpeed(coinBaseSpeed, coinSpeedIncreasePerLevel, lv), coinPoints,
                bob)

----------------------------------------------------------------------------
(* The Game controller *)

levelDuration == 60000

\* the cap on deltaTime, 0.1 s
maxDeltaTime == 100

\* CONFIG, as far as the constructors of the spawners and the ship read it
CONFIG ==
    [spaceship |-> [speed |-> speed, lives |-> lives],
     asteroid |-> [spawnInterval |-> asteroidSpawnInterval],
     coin |-> [spawnInterval |-> coinSpawnInterval]]

\* the notifications of a step; pruned counts the entities the filters of a
\* frame removed, stale the inactive entities in the lists its collision pass
\* was given
NoEvents ==
    [collision |-> 0, coin |-> 0, levelUp |-> 0, gameOver |-> 0, pruned |-> 0,
     stale |-> 0, tried |-> 0]

\* a gameLoop without the cap
CapDeltaMissing(raw) == raw

\* if (this.deltaTime > 0.1) this.deltaTime = 0.1
CapDelta(raw) == IF raw > maxDeltaTime THEN maxDeltaTime ELSE raw

\* no pause or resume is being timed
NoClock == [paused |-> 0, sinceResume |-> -1, gap |-> 0, afterResume |-> -1]

\* checkSpaceshipAsteroidCollision(spaceship, asteroid)
checkSpaceshipAsteroidCollision(s, a) ==
    checkCircleRectCollision(AsteroidCircle(a), ShipBounds(s))

\* checkSpaceshipCoinCollision(spaceship, coin)
checkSpaceshipCoinCollision(s, c) ==
    checkAABBCollision(ShipBounds(s), CoinBounds(c))

\* a level timer step that plays the level-up sound in every frame
LevelStepAlwaysNotifies(lt, lv, dt) ==
    IF lt + dt >= levelDuration
    THEN [levelTime |-> 0, level |-> lv + 1, levelUp |-> 1]
    ELSE [levelTime |-> lt + dt, level |-> lv, levelUp |-> 1]

\* a level timer that is not reset at a level-up
LevelStepKeepsTimer(lt, lv, dt) ==
    IF lt + dt >= levelDuration
    THEN [levelTime |-> lt + dt, level |-> lv + 1, levelUp |-> 1]
    ELSE [levelTime |-> lt + dt, level |-> lv, levelUp |-> 0]

\* the level timer step of Game.update
LevelStep(lt, lv, dt) ==
    IF lt + dt >= levelDuration
    THEN [levelTime |-> 0, level |-> lv + 1, levelUp |-> 1]
    ELSE [levelTime |-> lt + dt, level |-> lv, levelUp |-> 0]

\* GameIsOver with a strict comparison
GameIsOverBelowZero(s) == s.lives < 0

\* the game-over check of Game.update: spaceship.lives <= 0
GameIsOver(s) == s.lives <= 0

\* asteroids.forEach(asteroid => asteroid.update(deltaTime, speedMultiplier))
UpdateAsteroidList(as, dt, lv) ==
    [i \in 1..Len(as) |-> AsteroidUpdate(as[i], dt, lv)]

\* coins.forEach(coin => coin.update(deltaTime, speedMultiplier))
UpdateCoinList(cs, dt, lv, bobs) ==
    [i \in 1..Len(cs) |-> CoinUpdate(cs[i], dt, lv, bobs[i])]

IsActive(e) == e.active

IsInactive(e) == ~e.active

\* a filter that removes nothing
PruneNothing(es) == es

\* a filter that never examines the first entity of the list
PruneTail(es) == IF es = <<>> THEN es ELSE <<es[1]>> \o SelectSeq(Tail(es), IsActive)

\* asteroids.filter(asteroid => asteroid.active), coins.filter(coin => coin.active)
Prune(es) == SelectSeq(es, IsActive)

\* a loop that goes on to the next asteroid after a successful hit
GoOnAfterHit == FALSE

\* whether the loop of checkAsteroidCollisions ends after a successful hit
StopAfterHit == TRUE

\* checkAsteroidCollisions from asteroid i on: the ship, the successful hits
\* and the hit() calls made
RECURSIVE AsteroidPass(_, _, _, _, _)
AsteroidPass(s, as, i, hits, tried) ==
    IF i > Len(as)
    THEN [ship |-> s, hits |-> hits, tried |-> tried]
    ELSE IF ~as[i].active
         THEN AsteroidPass(s, as, i + 1, hits, tried)
         ELSE IF checkSpaceshipAsteroidCollision(s, as[i])
              THEN IF CanHit(s)
                   THEN IF StopAfterHit
                        THEN [ship |-> ShipHit(s), hits |-> hits + 1, tried |-> tried + 1]
                        ELSE AsteroidPass(ShipHit(s), as, i + 1, hits + 1, tried + 1)
                   ELSE AsteroidPass(s, as, i + 1, hits, tried + 1)
              ELSE AsteroidPass(s, as, i + 1, hits, tried)

checkAsteroidCollisions(s, as) == AsteroidPass(s, as, 1, 0, 0)

\* whether checkCoinCollisions skips the coin
SkipCoin(c) == ~c.active \/ c.collected

\* checkCoinCollisions on one coin: the coin after it and the points credited
CoinStep(s, c) ==
    IF SkipCoin(c)
    THEN [coin |-> c, points |-> 0]
    ELSE IF checkSpaceshipCoinCollision(s, c)
         THEN [coin |-> CoinCollect(c), points |-> CollectPoints(c)]
         ELSE [coin |-> c, points |-> 0]

RECURSIVE SumPoints(_, _, _)
SumPoints(s, cs, i) ==
    IF i > Len(cs) THEN 0 ELSE CoinStep(s, cs[i]).points + SumPoints(s, cs, i + 1)

RECURSIVE CountCredits(_, _, _)
CountCredits(s, cs, i) ==
    IF i > Len(cs) THEN 0
    ELSE (IF CoinStep(s, cs[i]).points > 0 THEN 1 ELSE 0) + CountCredits(s, cs, i + 1)

\* the first coin of cs that checkCoinCollisions credits, 0 if there is none
FirstCredit(s, cs) ==
    IF \E i \in 1..Len(cs) : CoinStep(s, cs[i]).points > 0
    THEN CHOOSE i \in 1..Len(cs) :
             /\ CoinStep(s, cs[i]).points > 0
             /\ \A j \in 1..(i - 1) : CoinStep(s, cs[j]).points = 0
    ELSE 0

\* a coin loop that ends after the first coin it credits
checkCoinCollisionsFirstOnly(s, cs) ==
    LET f == FirstCredit(s, cs) IN
    [coins |-> [i \in 1..Len(cs) |-> IF i = f THEN CoinStep(s, cs[i]).coin ELSE cs[i]],
     points |-> IF f = 0 THEN 0 ELSE CoinStep(s, cs[f]).points,
     credits |-> IF f = 0 THEN 0 ELSE 1]

\* checkCoinCollisions: the coins after it, the points added to the score and
\* the number of coins credited
checkCoinCollisions(s, cs) ==
    [coins |-> [i \in 1..Len(cs) |-> CoinStep(s, cs[i]).coin],
     points |-> SumPoints(s, cs, 1),
     credits |-> CountCredits(s, cs, 1)]

\* coins of cs whose collected flag is set in after and was not in cs
RECURSIVE NewlyCollected(_, _, _)
NewlyCollected(cs, after, i) ==
    IF i > Len(cs) THEN 0
    ELSE (IF after[i].collected /\ ~cs[i].collected THEN 1 ELSE 0)
         + NewlyCollected(cs, after, i + 1)

----------------------------------------------------------------------------
(* The game as the browser drives it *)

\* window.innerWidth x window.innerHeight (pixels)
Windows == {<<120, 200>>}

\* frame timestamps: currentTime - lastTime of a frame (ms)
Advances == {100, 200}

\* Playing frames explored per game
MaxFrames == 60

\* arrow-key and resize events explored per game
MaxInputs == 1

\* Playing frames of a game during which arrow-key events are explored
InputFrames == 30

\* levels explored
MaxLevel == 3

Init ==
    /\ state = "start"
    /\ score = 0
    /\ level = 1
    /\ levelTime = 0
    /\ deltaTime = 0
    /\ sinceLast = 0
    /\ \E win \in Windows : width = win[1] /\ height = win[2]
    /\ ship = NullShip
    /\ asteroids = <<>>
    /\ coins = <<>>
    /\ asteroidTimer = 0
    /\ coinTimer = 0
    /\ events = NoEvents
    /\ lastCall = "init"
    /\ ret = 0
    /\ sinceHit = -1
    /\ collectedCount = 0
    /\ frames = 0
    /\ inputs = 0
    /\ calls = 0
    /\ config = CONFIG
    /\ call = NoCall
    /\ from = "none"
    /\ clock = NoClock

\* startGame that keeps the asteroids of the lost game on a restart from
\* GameOver
startGameKeepsAsteroids ==
    /\ state' = "playing"
    /\ score' = 0
    /\ level' = 1
    /\ levelTime' = 0
    /\ asteroids' = IF state = "gameover" THEN asteroids ELSE <<>>
    /\ coins' = <<>>
    /\ asteroidTimer' = 0
    /\ coinTimer' = 0
    /\ ship' = NewSpaceship(height)
    /\ events' = NoEvents
    /\ sinceHit' = -1
    /\ collectedCount' = 0
    /\ frames' = 0
    /\ inputs' = 0
    /\ from' = state
    /\ UNCHANGED <<deltaTime, sinceLast, width, height, ret, calls, config, call>>

\* Game.startGame()
startGame ==
    /\ state' = "playing"
    /\ score' = 0
    /\ level' = 1
    /\ levelTime' = 0
    /\ asteroids' = <<>>
    /\ coins' = <<>>
    /\ asteroidTimer' = 0
    /\ coinTimer' = 0
    /\ ship' = NewSpaceship(height)
    /\ events' = NoEvents
    /\ sinceHit' = -1
    /\ collectedCount' = 0
    /\ frames' = 0
    /\ inputs' = 0
    /\ from' = state
    /\ UNCHANGED <<deltaTime, sinceLast, width, height, ret, calls, config, call>>

\* Game.pauseGame()
pauseGame ==
    /\ state' = "paused"
    /\ from' = state
    /\ UNCHANGED <<score, level, levelTime, deltaTime, sinceLast, width, height,
                   ship, asteroids, coins, asteroidTimer, coinTimer, ret,
                   sinceHit, collectedCount, frames, inputs, calls, config, call>>

\* resumeGame that leaves lastTime as it is
resumeGameKeepsLastTime ==
    /\ state' = "playing"
    /\ from' = state
    /\ UNCHANGED <<score, level, levelTime, deltaTime, sinceLast, width, height,
                   ship, asteroids, coins, asteroidTimer, coinTimer, ret,
                   sinceHit, collectedCount, frames, inputs, calls, config, call>>

\* a resumeGame that stamps lastTime 20 ms ahead of the clock
resumeGameStampsAhead ==
    /\ state' = "playing"
    /\ sinceLast' = -20
    /\ from' = state
    /\ UNCHANGED <<score, level, levelTime, deltaTime, width, height,
                   ship, asteroids, coins, asteroidTimer, coinTimer, ret,
                   sinceHit, collectedCount, frames, inputs, calls, config, call>>

\* Game.resumeGame(): lastTime = performance.now()
resumeGame ==
    /\ state' = "playing"
    /\ sinceLast' = 0
    /\ from' = state
    /\ UNCHANGED <<score, level, levelTime, deltaTime, width, height,
                   ship, asteroids, coins, asteroidTimer, coinTimer, ret,
                   sinceHit, collectedCount, frames, inputs, calls, config, call>>

\* the start-btn and restart-btn click listeners
ClickStart ==
    /\ startGame
    /\ lastCall' = "click"
    /\ UNCHANGED clock

\* handleKeyDown, e.key = 'Enter'
EnterKey ==
    /\ state = "start"
    /\ startGame
    /\ lastCall' = "keydown"

KeyDownEnter == EnterKey /\ UNCHANGED clock

\* an arrow-key or resize event counts toward MaxInputs; the events are
\* explored during the first InputFrames frames of a game
Input ==
    /\ inputs < MaxInputs
    /\ frames < InputFrames
    /\ inputs' = inputs + 1

\* handleKeyDown, e.key = 'ArrowUp' or 'ArrowDown'
KeyDownArrow ==
    \E up \in BOOLEAN :
        /\ state = "playing"
        /\ ~ship.null
        /\ Input
        /\ ship' = IF up THEN [ship EXCEPT !.moveUp = TRUE]
                         ELSE [ship EXCEPT !.moveDown = TRUE]
        /\ ship' # ship
        /\ events' = NoEvents
        /\ lastCall' = "keydown"
        /\ from' = state
        /\ UNCHANGED <<state, score, level, levelTime, deltaTime, sinceLast,
                       width, height, asteroids, coins, asteroidTimer,
                       coinTimer, ret, sinceHit, collectedCount, frames, calls,
                       config, call, clock>>

\* handleKeyDown, e.key = 'Escape'
EscapeKey ==
    /\ \/ state = "playing" /\ pauseGame
       \/ state = "paused" /\ resumeGame
    /\ events' = NoEvents
    /\ lastCall' = "keydown"

KeyDownEscape == EscapeKey /\ UNCHANGED clock

\* handleKeyUp, e.key = 'ArrowUp' or 'ArrowDown' (in any state, whether or not
\* the key was down)
KeyUpArrow ==
    \E up \in BOOLEAN :
        /\ ~ship.null
        /\ Input
        /\ ship' = IF up THEN [ship EXCEPT !.moveUp = FALSE]
                         ELSE [ship EXCEPT !.moveDown = FALSE]
        /\ events' = NoEvents
        /\ lastCall' = "keyup"
        /\ from' = state
        /\ UNCHANGED <<state, score, level, levelTime, deltaTime, sinceLast,
                       width, height, asteroids, coins, asteroidTimer,
                       coinTimer, ret, sinceHit, collectedCount, frames, calls,
                       config, call, clock>>

\* the inactive entities of a list
Stale(es) == Len(SelectSeq(es, IsInactive))

\* Game.update() for a frame of dt ms, with the values Math.random() and
\* Math.sin() yield in it
Update(dt, rSize, rY, rCoinY, rBob, bobs) ==
    LET lvl      == LevelStep(levelTime, level, dt)
        s1       == ShipUpdate(ship, dt)
        aUp      == SpawnerUpdate(asteroidTimer, config.asteroid.spawnInterval,
                                  AsteroidLevelMultiplier(lvl.level), dt)
        as1      == IF aUp.spawns = 1
                    THEN Append(asteroids, SpawnAsteroid(lvl.level, width, height, rSize, rY))
                    ELSE asteroids
        as2      == Prune(UpdateAsteroidList(as1, dt, lvl.level))
        cUp      == SpawnerUpdate(coinTimer, config.coin.spawnInterval,
                                  CoinLevelMultiplier(lvl.level), dt)
        cs1      == IF cUp.spawns = 1
                    THEN Append(coins, SpawnCoin(lvl.level, width, height, rCoinY, rBob))
                    ELSE coins
        cs2      == Prune(UpdateCoinList(cs1, dt, lvl.level, bobs))
        hitPass  == checkAsteroidCollisions(s1, as2)
        coinPass == checkCoinCollisions(hitPass.ship, cs2)
        over     == GameIsOver(hitPass.ship)
    IN  /\ levelTime' = lvl.levelTime
        /\ level' = lvl.level
        /\ ship' = hitPass.ship
        /\ asteroidTimer' = aUp.spawnTimer
        /\ asteroids' = as2
        /\ coinTimer' = cUp.spawnTimer
        /\ coins' = coinPass.coins
        /\ score' = score + coinPass.points
        /\ collectedCount' = collectedCount + NewlyCollected(cs2, coinPass.coins, 1)
        /\ state' = IF over THEN "gameover" ELSE state
        /\ events' = [collision |-> hitPass.hits, coin |-> coinPass.credits,
                      levelUp |-> lvl.levelUp, gameOver |-> IF over THEN 1 ELSE 0,
                      pruned |-> (Len(as1) - Len(as2)) + (Len(cs1) - Len(cs2)),
                      stale |-> Stale(as2) + Stale(cs2),
                      tried |-> hitPass.tried]
        /\ sinceHit' = IF hitPass.hits > 0 THEN 0
                       ELSE IF sinceHit < 0 THEN sinceHit
                       ELSE Max(0, Min(sinceHit + dt, invincibilityTime))

\* whether the asteroid spawner spawns in a frame of dt ms
AsteroidSpawns(dt) ==
    SpawnerUpdate(asteroidTimer, config.asteroid.spawnInterval,
                  AsteroidLevelMultiplier(LevelStep(levelTime, level, dt).level),
                  dt).spawns = 1

\* whether the coin spawner spawns in a frame of dt ms
CoinSpawns(dt) ==
    SpawnerUpdate(coinTimer, config.coin.spawnInterval,
                  CoinLevelMultiplier(LevelStep(levelTime, level, dt).level),
                  dt).spawns = 1

\* the Math.random() values a call that is made can yield
Drawn(made) == IF made THEN Randoms ELSE {0}

\* the phases a coin's constructor can draw, if it runs
DrawnBob(made) == IF made THEN Bobs ELSE {0}

\* the coins in the list when coin.update runs
CoinsToUpdate(dt) == Len(coins) + (IF CoinSpawns(dt) THEN 1 ELSE 0)

\* a switch whose Paused case also calls update()
SimulatesWhilePaused(st) == st \in {"playing", "paused"}

\* the switch of gameLoop: only the Playing case calls update()
Simulates(st) == st = "playing"

\* the values a call that is made can yield, out of S
DrawnFrom(made, S) == IF made THEN S ELSE {0}

\* Game.gameLoop(currentTime) for a timestamp that is adv ms after the last
\* handler ran, adv drawn from advs; at most maxFrames Playing frames per game;
\* Math.random() yields values of rnds and the coins' bob values of phases
FrameDrawing(advs, maxFrames, rnds, phases) ==
    \E adv \in advs :
        LET raw == sinceLast + adv
            dt  == CapDelta(raw)
        IN  /\ deltaTime' = dt
            /\ sinceLast' = 0
            /\ lastCall' = "gameLoop"
            /\ from' = state
            /\ IF Simulates(state)
               THEN /\ frames < maxFrames
                    /\ level < MaxLevel
                    /\ frames' = frames + 1
                    /\ \E rSize \in DrawnFrom(AsteroidSpawns(dt), rnds),
                          rY \in DrawnFrom(AsteroidSpawns(dt), rnds),
                          rCoinY \in DrawnFrom(CoinSpawns(dt), rnds),
                          rBob \in DrawnFrom(CoinSpawns(dt), phases),
                          bobs \in [1..CoinsToUpdate(dt) -> phases] :
                           Update(dt, rSize, rY, rCoinY, rBob, bobs)
                    /\ UNCHANGED <<width, height, ret, inputs, calls, config, call>>
               ELSE /\ events' = NoEvents
                    /\ UNCHANGED <<state, score, level, levelTime, width, height,
                                   ship, asteroids, coins, asteroidTimer,
                                   coinTimer, ret, sinceHit, collectedCount,
                                   frames, inputs, calls, config, call>>

\* a frame with any of the values Math.random() and the bob can yield
Frame(advs, maxFrames) == FrameDrawing(advs, maxFrames, Randoms, Bobs)

\* Game.gameLoop(currentTime)
gameLoop == Frame(Advances, MaxFrames) /\ UNCHANGED clock

Next ==
    \/ gameLoop
    \/ ClickStart
    \/ KeyDownEnter
    \/ KeyDownArrow
    \/ KeyDownEscape
    \/ KeyUpArrow

Spec == Init /\ [][Next]_vars

----------------------------------------------------------------------------
(* The Spaceship class on its own: any sequence of calls of its methods *)

\* window heights the ship is constructed or resized with (pixels)
Heights == {160, 200}

\* calls made on one object by the class harnesses
MaxCalls == 7

\* deltaTime arguments of update (ms)
ShipDts == {0, 100, 1000, 2000}

ShipInit ==
    /\ state = "start"
    /\ score = 0
    /\ level = 1
    /\ levelTime = 0
    /\ deltaTime = 0
    /\ sinceLast = 0
    /\ width = 120
    /\ height \in Heights
    /\ ship = NewSpaceship(height)
    /\ asteroids = <<>>
    /\ coins = <<>>
    /\ asteroidTimer = 0
    /\ coinTimer = 0
    /\ events = NoEvents
    /\ lastCall = "new"
    /\ ret = 0
    /\ sinceHit = -1
    /\ collectedCount = 0
    /\ frames = 0
    /\ inputs = 0
    /\ calls = 0
    /\ config = CONFIG
    /\ call = NoCall
    /\ from = "none"
    /\ clock = NoClock

\* every call of the harness counts toward MaxCalls; the game is not running
Called ==
    /\ calls < MaxCalls
    /\ calls' = calls + 1
    /\ UNCHANGED <<state, score, level, levelTime, deltaTime, sinceLast, width,
                   height, asteroids, asteroidTimer, coinTimer, events,
                   collectedCount, frames, inputs, config, call, from, clock>>

CallUpdate ==
    \E dt \in ShipDts :
        /\ Called
        /\ ship' = ShipUpdate(ship, dt)
        /\ sinceHit' = IF sinceHit < 0 THEN sinceHit
                       ELSE Min(sinceHit + dt, invincibilityTime)
        /\ lastCall' = "update"
        /\ ret' = 0
        /\ UNCHANGED coins

CallHit ==
    /\ Called
    /\ ship' = ShipHit(ship)
    /\ ret' = IF CanHit(ship) THEN 1 ELSE 0
    /\ sinceHit' = IF CanHit(ship) THEN 0 ELSE sinceHit
    /\ lastCall' = "hit"
    /\ UNCHANGED coins

CallReset ==
    \E h \in Heights :
        /\ Called
        /\ ship' = ShipReset(ship, h)
        /\ sinceHit' = -1
        /\ lastCall' = "reset"
        /\ ret' = 0
        /\ UNCHANGED coins

CallSetCanvasHeight ==
    \E h \in Heights :
        /\ Called
        /\ ship' = SetCanvasHeight(ship, h)
        /\ lastCall' = "setCanvasHeight"
        /\ ret' = 0
        /\ UNCHANGED <<coins, sinceHit>>

\* the key and touch handlers write moveUp / moveDown
CallSetInput ==
    \E up \in BOOLEAN, down \in BOOLEAN :
        /\ Called
        /\ <<up, down>> # <<ship.moveUp, ship.moveDown>>
        /\ ship' = [ship EXCEPT !.moveUp = up, !.moveDown = down]
        /\ lastCall' = "input"
        /\ ret' = 0
        /\ UNCHANGED <<coins, sinceHit>>

ShipNext ==
    \/ CallUpdate
    \/ CallHit
    \/ CallReset
    \/ CallSetCanvasHeight
    \/ CallSetInput

SpecShip == ShipInit /\ [][ShipNext]_vars

----------------------------------------------------------------------------
(* The Coin class on its own: any sequence of update and collect calls on a
   coin the spawner returned *)

\* deltaTime arguments of Coin.update (ms)
CoinDts == {0, 100, 1000}

\* levels the coin is spawned and updated at
CoinLevels == {1, 2}

CoinInit ==
    /\ state = "start"
    /\ score = 0
    /\ level \in CoinLevels
    /\ levelTime = 0
    /\ deltaTime = 0
    /\ sinceLast = 0
    /\ \E win \in Windows : width = win[1] /\ height = win[2]
    /\ ship = NullShip
    /\ asteroids = <<>>
    /\ \E rY \in Randoms, bob \in Bobs :
           coins = <<SpawnCoin(level, width, height, rY, bob)>>
    /\ asteroidTimer = 0
    /\ coinTimer = 0
    /\ events = NoEvents
    /\ lastCall = "new"
    /\ ret = 0
    /\ sinceHit = -1
    /\ collectedCount = 0
    /\ frames = 0
    /\ inputs = 0
    /\ calls = 0
    /\ config = CONFIG
    /\ call = NoCall
    /\ from = "none"
    /\ clock = NoClock

CallCoinUpdate ==
    \E dt \in CoinDts, bob \in Bobs :
        /\ Called
        /\ coins' = <<CoinUpdate(coins[1], dt, level, bob)>>
        /\ lastCall' = "update"
        /\ ret' = 0
        /\ UNCHANGED <<ship, sinceHit>>

CallCollect ==
    /\ Called
    /\ coins' = <<CoinCollect(coins[1])>>
    /\ ret' = CollectPoints(coins[1])
    /\ lastCall' = "collect"
    /\ UNCHANGED <<ship, sinceHit>>

CoinNext ==
    \/ CallCoinUpdate
    \/ CallCollect

SpecCoin == CoinInit /\ [][CoinNext]_vars

----------------------------------------------------------------------------
(* The Asteroid class on its own: any sequence of update calls on an asteroid
   the spawner returned *)

\* deltaTime arguments of Asteroid.update (ms); gameLoop passes a negative one
\* when a frame's timestamp precedes lastTime
AsteroidDts == {-100, 0, 100, 1000}

\* levels the asteroid is spawned and updated at
AsteroidLevels == {1, 3}

\* update calls made on the asteroid
MaxAsteroidCalls == 6

AsteroidInit ==
    /\ state = "start"
    /\ score = 0
    /\ level \in AsteroidLevels
    /\ levelTime = 0
    /\ deltaTime = 0
    /\ sinceLast = 0
    /\ \E win \in Windows : width = win[1] /\ height = win[2]
    /\ ship = NullShip
    /\ \E rSize \in Randoms, rY \in Randoms :
           asteroids = <<SpawnAsteroid(level, width, height, rSize, rY)>>
    /\ coins = <<>>
    /\ asteroidTimer = 0
    /\ coinTimer = 0
    /\ events = NoEvents
    /\ lastCall = "new"
    /\ ret = 0
    /\ sinceHit = -1
    /\ collectedCount = 0
    /\ frames = 0
    /\ inputs = 0
    /\ calls = 0
    /\ config = CONFIG
    /\ call = NoCall
    /\ from = "none"
    /\ clock = NoClock

CallAsteroidUpdate ==
    \E dt \in AsteroidDts :
        /\ calls < MaxAsteroidCalls
        /\ calls' = calls + 1
        /\ asteroids' = <<AsteroidUpdate(asteroids[1], dt, level)>>
        /\ lastCall' = "update"
        /\ UNCHANGED <<state, score, level, levelTime, deltaTime, sinceLast, width,
                       height, ship, coins, asteroidTimer, coinTimer, events, ret,
                       sinceHit, collectedCount, frames, inputs, config, call,
                       from, clock>>

AsteroidNext == CallAsteroidUpdate

SpecAsteroid == AsteroidInit /\ [][AsteroidNext]_vars

----------------------------------------------------------------------------
(* The entity lists on their own: Game.updateAsteroids() and
   Game.updateCoins() called frame after frame with a positive deltaTime, and
   coins collected in between as checkCoinCollisions collects them *)

\* deltaTime of the frames (ms): positive, bounded below
ScrollDts == {50, 100}

\* this.level while the lists are updated
ScrollLevels == {2}

\* Math.sin(bobOffset) * bobAmount of the coins (1/100 pixel)
ScrollPhases == {300}

\* the Math.random() value that places a spawned entity vertically, in
\* hundredths; the vertical position plays no part in an entity's removal
ScrollHeights == {50}

\* entities a list holds when it is updated
MaxLive == 2

ScrollInit ==
    /\ state = "start"
    /\ score = 0
    /\ level \in ScrollLevels
    /\ levelTime = 0
    /\ deltaTime = 0
    /\ sinceLast = 0
    /\ \E win \in Windows : width = win[1] /\ height = win[2]
    /\ ship = NullShip
    /\ asteroids = <<>>
    /\ coins = <<>>
    /\ asteroidTimer = 0
    /\ coinTimer = 0
    /\ events = NoEvents
    /\ lastCall = "new"
    /\ ret = 0
    /\ sinceHit = -1
    /\ collectedCount = 0
    /\ frames = 0
    /\ inputs = 0
    /\ calls = 0
    /\ config = CONFIG
    /\ call = NoCall
    /\ from = "none"
    /\ clock = NoClock

\* updateAsteroids() then updateCoins(), as Game.update calls them, with the
\* same deltaTime: spawn, update every entity, filter on active. The call
\* record tells whether the first entity of each list was filtered out and
\* whether a coin that had finished its collection animation was
CallUpdateLists ==
    \E dt \in ScrollDts :
        LET aUp == SpawnerUpdate(asteroidTimer, config.asteroid.spawnInterval,
                                 AsteroidLevelMultiplier(level), dt)
            cUp == SpawnerUpdate(coinTimer, config.coin.spawnInterval,
                                 CoinLevelMultiplier(level), dt)
        IN  \E rSize \in DrawnFrom(aUp.spawns = 1, Randoms),
               rY \in DrawnFrom(aUp.spawns = 1, ScrollHeights),
               rCoinY \in DrawnFrom(cUp.spawns = 1, ScrollHeights),
               phase \in ScrollPhases :
                LET as1 == IF aUp.spawns = 1
                           THEN Append(asteroids,
                                       SpawnAsteroid(level, width, height, rSize, rY))
                           ELSE asteroids
                    as2 == UpdateAsteroidList(as1, dt, level)
                    cs1 == IF cUp.spawns = 1
                           THEN Append(coins,
                                       SpawnCoin(level, width, height, rCoinY, phase))
                           ELSE coins
                    cs2 == UpdateCoinList(cs1, dt, level,
                                          [i \in 1..Len(cs1) |-> phase])
                IN  /\ Len(asteroids) < MaxLive
                    /\ Len(coins) < MaxLive
                    /\ asteroidTimer' = aUp.spawnTimer
                    /\ asteroids' = Prune(as2)
                    /\ coinTimer' = cUp.spawnTimer
                    /\ coins' = Prune(cs2)
                    /\ deltaTime' = dt
                    /\ lastCall' = "update"
                    /\ ret' = 0
                    /\ call' = [fn |-> "updateLists",
                                asteroidHead |-> as2 # <<>> /\ ~as2[1].active,
                                coinHead |-> cs2 # <<>> /\ ~cs2[1].active,
                                animated |-> \E i \in 1..Len(cs2) :
                                                cs2[i].collected /\ ~cs2[i].active]
                    /\ UNCHANGED <<state, score, level, levelTime, sinceLast,
                                   width, height, ship, events, sinceHit,
                                   collectedCount, frames, inputs, calls, config,
                                   from, clock>>

\* coin.collect() on a coin of the list, as checkCoinCollisions calls it
CallCollectInList ==
    \E i \in 1..Len(coins) :
        /\ CanCollect(coins[i])
        /\ coins' = [coins EXCEPT ![i] = CoinCollect(coins[i])]
        /\ ret' = CollectPoints(coins[i])
        /\ lastCall' = "collect"
        /\ call' = [fn |-> "collect", asteroidHead |-> FALSE, coinHead |-> FALSE,
                    animated |-> FALSE]
        /\ UNCHANGED <<state, score, level, levelTime, deltaTime, sinceLast,
                       width, height, ship, asteroids, asteroidTimer, coinTimer,
                       events, sinceHit, collectedCount, frames, inputs, calls,
                       config, from, clock>>

ScrollNext ==
    \/ CallUpdateLists
    \/ CallCollectInList

SpecScroll == ScrollInit /\ [][ScrollNext]_vars

\* the frames keep coming: requestAnimationFrame schedules the next one at the
\* end of every gameLoop
SpecScrollFair == SpecScroll /\ WF_vars(CallUpdateLists)

----------------------------------------------------------------------------
(* The game under a wall clock: time passes between the handlers, the frame
   timestamps follow it, and the pauses are timed *)

\* ms of wall-clock time that pass between two handlers
ClockTicks == {20, 150}

\* the requestAnimationFrame timestamp minus performance.now() of the handler
\* that ran just before the frame (ms): the timestamp is the start of the
\* frame, which can precede a handler run in the same frame
ClockSkews == {-4, 0}

\* ms explored since the last reset of lastTime
MaxGap == 200

\* Playing frames explored per game under the wall clock
MaxClockFrames == 2

ClockTick ==
    \E d \in ClockTicks :
        /\ sinceLast + d <= MaxGap
        /\ sinceLast' = sinceLast + d
        /\ clock' = [clock EXCEPT
                       !.paused = IF state = "paused" THEN Min(@ + d, MaxGap) ELSE @,
                       !.sinceResume = IF @ >= 0 THEN Min(@ + d, MaxGap) ELSE @]
        /\ lastCall' = "tick"
        /\ UNCHANGED <<state, score, level, levelTime, deltaTime, width, height,
                       ship, asteroids, coins, asteroidTimer, coinTimer, events,
                       ret, sinceHit, collectedCount, frames, inputs, calls,
                       config, call, from>>

\* a frame; its timestamp can precede the clock, by one of skews, only when
\* resumeGame has just set lastTime from performance.now()
ClockFrameSkewed(skews) ==
    \E adv \in IF clock.sinceResume = 0 /\ sinceLast = 0 THEN skews ELSE {0} :
        /\ Frame({adv}, MaxClockFrames)
        /\ clock' = [clock EXCEPT
                       !.gap = sinceLast + adv,
                       !.afterResume = IF state = "playing" THEN clock.sinceResume
                                       ELSE -1,
                       !.sinceResume = IF state = "playing" THEN -1 ELSE @]

ClockFrame == ClockFrameSkewed(ClockSkews)

ClockEnter == EnterKey /\ clock' = NoClock

ClockEscape ==
    /\ EscapeKey
    /\ clock' = IF state = "playing"
                THEN NoClock
                ELSE [clock EXCEPT !.sinceResume = 0, !.afterResume = -1]

ClockNext ==
    \/ ClockTick
    \/ ClockFrame
    \/ ClockEnter
    \/ ClockEscape

SpecClock == Init /\ [][ClockNext]_vars

\* a frame whose timestamp is the clock's time: no frame's timestamp precedes
\* an earlier frame's or the time resumeGame stamped
OrderedFrame == ClockFrameSkewed({0})

OrderedNext ==
    \/ ClockTick
    \/ OrderedFrame
    \/ ClockEnter
    \/ ClockEscape

\* the game under a wall clock whose frame timestamps never run backwards
SpecOrdered == Init /\ [][OrderedNext]_vars

----------------------------------------------------------------------------
(* The constructors and the two spawners on their own: objects constructed
   from any configuration object, then any sequence of update calls on the
   spawners *)

\* configuration objects handed to the constructors
Configs ==
    [spaceship : [speed : {speed, -speed}, lives : {lives}],
     asteroid  : [spawnInterval : {asteroidSpawnInterval, 0, -asteroidSpawnInterval}],
     coin      : [spawnInterval : {coinSpawnInterval, 0}]]

\* deltaTime arguments of the spawners' update (ms)
SpawnerDts == {0, 100, 1600, 4000}

\* level arguments of the spawners' update
SpawnerLevels == {1, 5}

\* new Spaceship(config.spaceship, height), new AsteroidSpawner(config.asteroid,
\* width, height), new CoinSpawner(config.coin, width, height)
SpawnerInit ==
    /\ state = "start"
    /\ score = 0
    /\ level = 1
    /\ levelTime = 0
    /\ deltaTime = 0
    /\ sinceLast = 0
    /\ width = 120
    /\ height \in Heights
    /\ config \in Configs
    /\ call = NoCall
    /\ ship = SpaceshipFromConfig(config.spaceship, height)
    /\ asteroids = <<>>
    /\ coins = <<>>
    /\ asteroidTimer = 0
    /\ coinTimer = 0
    /\ events = NoEvents
    /\ lastCall = "new"
    /\ ret = 0
    /\ sinceHit = -1
    /\ collectedCount = 0
    /\ frames = 0
    /\ inputs = 0
    /\ calls = 0
    /\ from = "none"
    /\ clock = NoClock

\* update calls made on the two spawners
MaxSpawnerCalls == 5

\* every call on a spawner counts toward MaxSpawnerCalls; asteroids and coins
\* hold what the last call returned
SpawnerCalled ==
    /\ calls < MaxSpawnerCalls
    /\ calls' = calls + 1
    /\ UNCHANGED <<state, score, levelTime, sinceLast, width, height, ship,
                   events, sinceHit, collectedCount, frames, inputs, config, call,
                   from, clock>>

\* asteroidSpawner.update(dt, lv)
CallAsteroidSpawnerUpdate ==
    \E dt \in SpawnerDts, lv \in SpawnerLevels :
        LET r == SpawnerUpdate(asteroidTimer, config.asteroid.spawnInterval,
                               AsteroidLevelMultiplier(lv), dt)
        IN  /\ SpawnerCalled
            /\ asteroidTimer' = r.spawnTimer
            /\ ret' = r.spawns
            /\ \E rSize, rY \in Drawn(r.spawns = 1) :
                   asteroids' = IF r.spawns = 1
                                THEN <<SpawnAsteroid(lv, width, height, rSize, rY)>>
                                ELSE <<>>
            /\ deltaTime' = dt
            /\ level' = lv
            /\ lastCall' = "asteroidSpawner.update"
            /\ UNCHANGED <<coins, coinTimer>>

\* coinSpawner.update(dt, lv)
CallCoinSpawnerUpdate ==
    \E dt \in SpawnerDts, lv \in SpawnerLevels :
        LET r == SpawnerUpdate(coinTimer, config.coin.spawnInterval,
                               CoinLevelMultiplier(lv), dt)
        IN  /\ SpawnerCalled
            /\ coinTimer' = r.spawnTimer
            /\ ret' = r.spawns
            /\ \E rY \in Drawn(r.spawns = 1), bob \in DrawnBob(r.spawns = 1) :
                   coins' = IF r.spawns = 1
                            THEN <<SpawnCoin(lv, width, height, rY, bob)>>
                            ELSE <<>>
            /\ deltaTime' = dt
            /\ level' = lv
            /\ lastCall' = "coinSpawner.update"
            /\ UNCHANGED <<asteroids, asteroidTimer>>

SpawnerNext ==
    \/ CallAsteroidSpawnerUpdate
    \/ CallCoinSpawnerUpdate

SpecSpawner == SpawnerInit /\ [][SpawnerNext]_vars

----------------------------------------------------------------------------
(* Frames of a game in progress: the ship among asteroids and coins that have
   come close to it, two of them at once after a resize or a level-up has
   brought entities spawned at different times together *)

\* x of the entities on the screen (pixels)
FrameXs == {110, 300}

\* asteroids on the screen: spawned by the spawner, then moved left
FrameAsteroids ==
    {[SpawnAsteroid(1, 120, 200, 0, rY) EXCEPT !.x = Px(x)] :
        rY \in Randoms, x \in FrameXs}

\* coins on the screen: spawned by the spawner, then moved left; some were
\* collected in the frame before
FrameCoins ==
    LET fresh == {CoinUpdate([SpawnCoin(1, 120, 200, rY, 300) EXCEPT !.x = Px(x)],
                             0, 1, 300) :
                     rY \in Randoms, x \in {110}}
    IN  fresh \cup {CoinCollect(c) : c \in fresh}

\* the ship of a game in progress: on its last life, unharmed, or invincible
\* after its first hit
FrameShips ==
    LET whole == {[NewSpaceship(200) EXCEPT !.lives = n] : n \in {1, lives}}
    IN  whole \cup {ShipHit(s) : s \in {w \in whole : w.lives > 1}}

\* sequences of at most two elements of S
UpToTwo(S) == {<<>>} \cup {<<a>> : a \in S} \cup {<<a, b>> : a, b \in S}

\* frame timestamps: currentTime - lastTime of a frame (ms)
FrameDts == {0, 100}

\* frames explored from each world
MaxFrameSteps == 2

\* the level timer of a game in progress: far from a level-up, or one frame
\* before it (ms)
FrameLevelTimes == {0, levelDuration - maxDeltaTime}

FrameInit ==
    /\ state = "playing"
    /\ score = 0
    /\ level = 1
    /\ levelTime \in FrameLevelTimes
    /\ deltaTime = 0
    /\ sinceLast = 0
    /\ width = 120
    /\ height = 200
    /\ ship \in FrameShips
    /\ asteroids \in UpToTwo(FrameAsteroids)
    /\ coins \in UpToTwo(FrameCoins)
    /\ asteroidTimer = 0
    /\ coinTimer = 0
    /\ events = NoEvents
    /\ lastCall = "keyup"
    /\ ret = 0
    /\ sinceHit = IF ship.isInvincible THEN 0 ELSE -1
    /\ collectedCount = 0
    /\ frames = 0
    /\ inputs = 0
    /\ calls = 0
    /\ config = CONFIG
    /\ call = NoCall
    /\ from = "playing"
    /\ clock = NoClock

FrameStep == Frame(FrameDts, MaxFrameSteps) /\ UNCHANGED clock

FrameNext == FrameStep

SpecFrame == FrameInit /\ [][FrameNext]_vars

----------------------------------------------------------------------------
(* The functions on their own: the spawners' adjusted interval and the
   collision tests of collision.js, called with arguments from bounded sets *)

\* the state around a function call: no game has been started
CallInit ==
    /\ state = "start"
    /\ score = 0
    /\ level = 1
    /\ levelTime = 0
    /\ deltaTime = 0
    /\ sinceLast = 0
    /\ width = 120
    /\ height = 200
    /\ ship = NullShip
    /\ asteroids = <<>>
    /\ coins = <<>>
    /\ asteroidTimer = 0
    /\ coinTimer = 0
    /\ events = NoEvents
    /\ lastCall = "new"
    /\ ret = 0
    /\ sinceHit = -1
    /\ collectedCount = 0
    /\ frames = 0
    /\ inputs = 0
    /\ calls = 0
    /\ config = CONFIG
    /\ from = "none"
    /\ clock = NoClock
    /\ call = NoCall

\* one function call is made in each behaviour; it changes nothing of the
\* game
FunctionCalled ==
    /\ call = NoCall
    /\ UNCHANGED <<state, score, level, levelTime, deltaTime, sinceLast, width,
                   height, ship, asteroids, coins, asteroidTimer, coinTimer,
                   events, ret, sinceHit, collectedCount, frames, inputs, calls,
                   config, from, clock>>

\* the highest level the adjusted interval is computed for
MaxIntervalLevel == 25

\* the adjusted interval of the obstacle spawner at a lower and a higher level
CallAsteroidInterval ==
    \E lo \in 1..MaxIntervalLevel : \E hi \in lo..MaxIntervalLevel :
        /\ FunctionCalled
        /\ lastCall' = "adjustedInterval"
        /\ call' = [fn |-> "adjustedInterval", spawner |-> "asteroid",
                    lo |-> lo, hi |-> hi,
                    atLo |-> AdjustedInterval(config.asteroid.spawnInterval,
                                              AsteroidLevelMultiplier(lo)),
                    atHi |-> AdjustedInterval(config.asteroid.spawnInterval,
                                              AsteroidLevelMultiplier(hi))]

\* the adjusted interval of the pickup spawner at a lower and a higher level
CallCoinInterval ==
    \E lo \in 1..MaxIntervalLevel : \E hi \in lo..MaxIntervalLevel :
        /\ FunctionCalled
        /\ lastCall' = "adjustedInterval"
        /\ call' = [fn |-> "adjustedInterval", spawner |-> "coin",
                    lo |-> lo, hi |-> hi,
                    atLo |-> AdjustedInterval(config.coin.spawnInterval,
                                              CoinLevelMultiplier(lo)),
                    atHi |-> AdjustedInterval(config.coin.spawnInterval,
                                              CoinLevelMultiplier(hi))]

IntervalNext ==
    \/ CallAsteroidInterval
    \/ CallCoinInterval

SpecInterval == CallInit /\ [][IntervalNext]_vars

----------------------------------------------------------------------------
(* Long games: frames at the capped delta-time until the level has gone up
   twice, with Math.random() yielding 0 so that every entity enters at the
   top of the screen *)

\* Playing frames explored per long game
MaxLevelFrames == 1210

\* what Math.random() yields in the long games, in hundredths
LevelRandoms == {0}

\* the coins' bob in the long games (1/100 pixel)
LevelBobs == {300}

LevelFrame ==
    FrameDrawing({maxDeltaTime}, MaxLevelFrames, LevelRandoms, LevelBobs)
    /\ UNCHANGED clock

LevelNext ==
    \/ LevelFrame
    \/ KeyDownEnter
    \/ ClickStart
    \/ KeyDownEscape

SpecLevel == Init /\ [][LevelNext]_vars

\* coordinates of the rectangles and circles the tests are called with
GridMax == 3

\* rectangles {x, y, width, height} on the grid
GridRects ==
    [x : 0..GridMax, y : 0..GridMax, width : 1..2, height : 1..2]

\* checkAABBCollision(a, b)
CallAABB ==
    \E a, b \in GridRects :
        /\ FunctionCalled
        /\ lastCall' = "checkAABBCollision"
        /\ call' = [fn |-> "checkAABBCollision", a |-> a, b |-> b,
                    result |-> checkAABBCollision(a, b)]

\* circles {x, y, radius} on and around the grid
GridCircles == [x : -1..(GridMax + 1), y : -1..(GridMax + 1), radius : 0..2]

\* rectangles the circle test is called with, flat ones included
CircleRects == [x : 0..2, y : 0..2, width : 0..2, height : 0..2]

\* checkCircleRectCollision(circle, rect)
CallCircleRect ==
    \E circle \in GridCircles, rect \in CircleRects :
        /\ FunctionCalled
        /\ lastCall' = "checkCircleRectCollision"
        /\ call' = [fn |-> "checkCircleRectCollision", circle |-> circle,
                    rect |-> rect,
                    result |-> checkCircleRectCollision(circle, rect)]

CollisionNext ==
    \/ CallAABB
    \/ CallCircleRect

SpecCollision == CallInit /\ [][CollisionNext]_vars

\* coordinates of the shapes that are shifted: numbers the floating-point
\* format holds
ShiftCoords == 0..6

\* the shapes that are shifted
ShiftCircles == [x : ShiftCoords, y : {0, 2}, radius : {1, 3, 5}]

ShiftRects == [x : ShiftCoords, y : {0}, width : 0..2, height : 1..2]

\* the offsets the shapes are shifted by
Offsets == {0, 1, 4, 31} \X {0, 4}

\* the circle and the rectangle shifted by off, each coordinate a rounded sum
ShiftedCircle(circle, off) ==
    [circle EXCEPT !.x = Fl(circle.x + off[1]), !.y = Fl(circle.y + off[2])]

ShiftedRect(rect, off) ==
    [rect EXCEPT !.x = Fl(rect.x + off[1]), !.y = Fl(rect.y + off[2])]

\* whether the shift of the two shapes by off rounds no coordinate
ShiftIsExact(circle, rect, off) ==
    /\ Fl(circle.x + off[1]) = circle.x + off[1]
    /\ Fl(circle.y + off[2]) = circle.y + off[2]
    /\ Fl(rect.x + off[1]) = rect.x + off[1]
    /\ Fl(rect.y + off[2]) = rect.y + off[2]

\* checkCircleRectCollision on two shapes and on the two shapes shifted by the
\* same offset
CallTranslated ==
    \E circle \in ShiftCircles, rect \in ShiftRects, off \in Offsets :
        LET here  == checkCircleRectCollisionFl(circle, rect)
            there == checkCircleRectCollisionFl(ShiftedCircle(circle, off),
                                                ShiftedRect(rect, off))
        IN  /\ FunctionCalled
            /\ lastCall' = "checkCircleRectCollision"
            /\ call' = [fn |-> "translated", circle |-> circle, rect |-> rect,
                        offset |-> off,
                        result |-> here.result,
                        shifted |-> there.result,
                        exact |-> /\ here.exact
                                  /\ there.exact
                                  /\ ShiftIsExact(circle, rect, off)]

TranslationNext == CallTranslated

SpecTranslation == CallInit /\ [][TranslationNext]_vars

\* the highest level the spawners' spawn is called at
MaxSpawnLevel == 4

\* canvasHeight of the spawners (pixels): shorter than twice the spawn margin
\* of 80 pixels, exactly twice, and taller
SpawnHeights == {100, 160, 200}

\* values of Math.random() in spawn, in hundredths: 0 <= Math.random() < 1
SpawnRandoms == {0, 50, 99}

\* AsteroidSpawner.spawn(level)
CallSpawnAsteroid ==
    \E lv \in 1..MaxSpawnLevel, h \in SpawnHeights,
       rSize \in SpawnRandoms, rY \in SpawnRandoms :
        /\ FunctionCalled
        /\ lastCall' = "spawn"
        /\ call' = [fn |-> "spawn", spawner |-> "asteroid", level |-> lv,
                    canvasWidth |-> width, canvasHeight |-> h,
                    entity |-> SpawnAsteroid(lv, width, h, rSize, rY)]

\* CoinSpawner.spawn(level)
CallSpawnCoin ==
    \E lv \in 1..MaxSpawnLevel, h \in SpawnHeights,
       rY \in SpawnRandoms, bob \in Bobs :
        /\ FunctionCalled
        /\ lastCall' = "spawn"
        /\ call' = [fn |-> "spawn", spawner |-> "coin", level |-> lv,
                    canvasWidth |-> width, canvasHeight |-> h,
                    entity |-> SpawnCoin(lv, width, h, rY, bob)]

SpawnNext ==
    \/ CallSpawnAsteroid
    \/ CallSpawnCoin

SpecSpawn == CallInit /\ [][SpawnNext]_vars

----------------------------------------------------------------------------
(* Claims *)

InBounds(s) == s.y >= ShipMargin /\ s.y <= Px(s.canvasHeight) - ShipMargin

\* C1: the ship's y is within [margin, canvasHeight - margin] after every
\* update (any deltaTime >= 0, any moveUp / moveDown), hit, reset and resize
\* that starts from a ship within those bounds.
C1_ShipWithinBounds == InBounds(ship)

\* an update has clamped the ship at the bottom margin and bounced it back
C1_Witness ==
    /\ lastCall = "update"
    /\ ship.y = Px(ship.canvasHeight) - ShipMargin
    /\ ship.velocity < 0

\* C2: hit() right after construction or reset() returns true and takes
\* exactly one life; a hit() that directly follows a hit() returns false and
\* leaves lives unchanged.
C2_HitThenHit ==
    [][lastCall' = "hit" =>
          /\ lastCall \in {"new", "reset"} =>
                 /\ ret' = 1
                 /\ ship.lives = ship.maxLives
                 /\ ship'.lives = ship.lives - 1
          /\ lastCall = "hit" =>
                 /\ ret' = 0
                 /\ ship'.lives = ship.lives]_vars

\* the second of two hit() calls made right after construction was refused
C2_Witness ==
    /\ calls = 2
    /\ lastCall = "hit"
    /\ ret = 0
    /\ ship.lives = ship.maxLives - 1

\* C3: 0 <= lives <= maxLives in every state the ship reaches by update, hit
\* and reset calls (a game frame acts on the ship only through update and hit).
C3_LivesInRange == ship.lives >= 0 /\ ship.lives <= ship.maxLives

\* the same range for the ship of a running game, over frames and events (Spec)
LivesInRangeInGame == ship.null \/ (ship.lives >= 0 /\ ship.lives <= ship.maxLives)

\* hit() was called on a vulnerable ship that has no lives left
C3_Witness ==
    /\ lastCall = "hit"
    /\ ret = 0
    /\ ship.lives = 0
    /\ ~ship.isInvincible

\* an active asteroid of as overlaps the hitbox of ship s
SomeAsteroidOverlaps(s, as) ==
    \E i \in 1..Len(as) :
        /\ as[i].active
        /\ checkCircleRectCollision(AsteroidCircle(as[i]), ShipBounds(s))

\* C4: lives decrease only in a Playing frame, by exactly 1, with one
\* collision notification, when an active asteroid overlaps the ship's hitbox
\* and the ship is not invincible once its update of that frame has run.
C4_LivesLostOnlyByCollision ==
    [][(~ship.null /\ ~ship'.null /\ ship'.lives < ship.lives) =>
          /\ lastCall' = "gameLoop"
          /\ state = "playing"
          /\ ship'.lives = ship.lives - 1
          /\ events'.collision = 1
          /\ SomeAsteroidOverlaps(ship', asteroids')
          /\ ship.isInvincible => ship.invincibilityTimer - deltaTime' <= 0]_vars

\* a frame in which the ship lost its first life to an asteroid
C4_Witness ==
    /\ lastCall = "gameLoop"
    /\ events.collision = 1
    /\ ship.lives = lives - 1

\* C5: after a successful hit(), the ship is invincible and every hit() is
\* refused while the deltaTime of the update calls since then sums to less than
\* the invincibility duration; once the sum reaches it the ship is vulnerable
\* and the next hit() succeeds if a life is left.  (reset() ends the window.)
C5_InvincibilityWindow ==
    /\ [](sinceHit >= 0 => (ship.isInvincible <=> sinceHit < invincibilityTime))
    /\ [][(lastCall' = "hit" /\ sinceHit >= 0) =>
             (ret' = 1 <=> (sinceHit >= invincibilityTime /\ ship.lives > 0))]_vars

\* a second life was lost to a hit() made after the window of the first
C5_Witness ==
    /\ lastCall = "hit"
    /\ ret = 1
    /\ ship.lives = ship.maxLives - 2

\* C6: gameOver() runs exactly once per game: in the Playing frame in which
\* lives goes from 1 to 0, never with a life left, and not again before a
\* restart.
C6_GameOverOnce ==
    /\ [](state = "gameover" => ship.lives = 0)
    /\ [][/\ events'.gameOver > 0 =>
                /\ events'.gameOver = 1
                /\ lastCall' = "gameLoop"
                /\ state = "playing"
                /\ state' = "gameover"
                /\ ship.lives = 1
                /\ ship'.lives = 0
          /\ (state' = "gameover" /\ state # "gameover") => events'.gameOver = 1
          /\ (~ship.null /\ ~ship'.null /\ ship.lives = 1 /\ ship'.lives = 0) =>
                events'.gameOver = 1]_vars

\* the frame that took the last life ended the game
C6_Witness ==
    /\ state = "gameover"
    /\ events.gameOver = 1
    /\ ship.lives = 0

\* coin c was collected in the frame just run: its animation has not advanced
JustCollected(c) == c.active /\ c.collected /\ c.collectAnimation = 0

\* the point values of the first n coins of cs that were collected in the
\* frame just run
RECURSIVE JustCollectedPoints(_, _)
JustCollectedPoints(cs, n) ==
    IF n = 0 THEN 0
    ELSE JustCollectedPoints(cs, n - 1)
         + (IF JustCollected(cs[n]) THEN cs[n].points ELSE 0)

\* C7: the score is the sum of the point values of the coins collected since
\* the last game start, each credited once; it changes only when startGame
\* zeroes it or when a Playing frame adds the point values of the coins it
\* collected, each of which overlaps the ship's hitbox.
C7_ScoreFromPickups ==
    /\ [](score = coinPoints * collectedCount)
    /\ [][score' # score =>
             \/ /\ lastCall' \in {"click", "keydown"}
                /\ state' = "playing"
                /\ score' = 0
             \/ /\ lastCall' = "gameLoop"
                /\ state = "playing"
                /\ score' = score + JustCollectedPoints(coins', Len(coins'))
                /\ \A i \in 1..Len(coins') :
                      JustCollected(coins'[i]) =>
                          checkAABBCollision(ShipBounds(ship'),
                                             CoinBounds(coins'[i]))]_vars

\* the second coin of a game has just been credited
C7_Witness ==
    /\ lastCall = "gameLoop"
    /\ events.coin = 1
    /\ score = 2 * coinPoints

\* C8: collect() on an active, uncollected coin returns its points and sets
\* collected; collected is never cleared, and collect() on a collected coin
\* returns 0 and changes nothing.
C8_CollectOnce ==
    [][/\ coins[1].collected => coins'[1].collected
       /\ lastCall' = "collect" =>
             /\ (coins[1].active /\ ~coins[1].collected) =>
                    /\ ret' = coins[1].points
                    /\ coins'[1].collected
             /\ coins[1].collected =>
                    /\ ret' = 0
                    /\ coins' = coins]_vars

\* collect() was called again on a coin whose collection is still animating
C8_Witness ==
    /\ lastCall = "collect"
    /\ ret = 0
    /\ coins[1].collected
    /\ coins[1].active
    /\ coins[1].collectAnimation > 0

\* C9: a coin's active flag is cleared only by update(): either the coin was
\* collected and its collection animation has reached 1, or it was not
\* collected and has scrolled past x < -2 * size; collect() never clears it.
C9_DeactivatedOnlyByUpdate ==
    [][(coins[1].active /\ ~coins'[1].active) =>
          /\ lastCall' = "update"
          /\ \/ /\ coins[1].collected
                /\ coins'[1].collectAnimation >= 1000
             \/ /\ ~coins[1].collected
                /\ ~coins'[1].collected
                /\ coins'[1].x < -(coins'[1].size * 2)]_vars

\* a collected coin went inactive when its animation completed
C9_Witness ==
    /\ ~coins[1].active
    /\ coins[1].collected
    /\ coins[1].collectAnimation >= 1000

Transitions ==
    {<<"start", "playing">>, <<"playing", "paused">>, <<"paused", "playing">>,
     <<"playing", "gameover">>, <<"gameover", "playing">>}

\* C10: the state changes only along Start->Playing, Playing->Paused,
\* Paused->Playing, Playing->GameOver and GameOver->Playing, and a start or
\* restart button event restarts the game only from Start or GameOver (never
\* from Paused or Playing).
C10_OnlyListedTransitions ==
    [][/\ state' # state => <<state, state'>> \in Transitions
       /\ lastCall' = "click" => state \in {"start", "gameover"}]_vars

\* C11: startGame() from Start or from GameOver leaves the state Playing with
\* score 0, level 1, level timer 0, no asteroids, no coins, both spawn timers
\* 0 and a ship with lives = maxLives = the configured lives, velocity 0, not
\* invincible and vertically centred.
C11_StartGameResetsWorld ==
    [][(/\ lastCall' \in {"click", "keydown"}
        /\ state \in {"start", "gameover"}
        /\ state' # state) =>
          /\ state' = "playing"
          /\ score' = 0
          /\ level' = 1
          /\ levelTime' = 0
          /\ asteroids' = <<>>
          /\ coins' = <<>>
          /\ asteroidTimer' = 0
          /\ coinTimer' = 0
          /\ ship'.lives = ship'.maxLives
          /\ ship'.lives = lives
          /\ ship'.velocity = 0
          /\ ~ship'.isInvincible
          /\ ship'.invincibilityTimer = 0
          /\ ship'.y * 2 = Px(height')]_vars

\* the game was restarted from GameOver
C11_Witness ==
    /\ from = "gameover"
    /\ state = "playing"
    /\ lastCall = "click"
    /\ score = 0
    /\ ship.lives = ship.maxLives

\* C12: a frame that runs while the state is Paused leaves score, level, level
\* timer, both spawn timers, the ship and every asteroid and coin unchanged.
C12_PausedFramesFreeze ==
    [][(state = "paused" /\ lastCall' = "gameLoop") =>
          /\ state' = "paused"
          /\ UNCHANGED <<score, level, levelTime, asteroidTimer, coinTimer,
                         ship, asteroids, coins>>]_vars

\* a second frame has run over a paused game whose ship is moving and
\* invincible with an asteroid on screen
C12_Witness ==
    /\ state = "paused"
    /\ from = "paused"
    /\ lastCall = "gameLoop"
    /\ asteroids # <<>>
    /\ ship.isInvincible
    /\ ship.velocity # 0

\* a Playing frame
PlayingFrame == state = "playing" /\ lastCall' = "gameLoop"

C13_ResumeDeltaExcludesPause ==
    clock.afterResume >= 0 => deltaTime <= clock.afterResume

\* the first Playing frame after a pause of 150 ms or more has run with a
\* smaller delta-time than the pause
C13_Witness ==
    /\ lastCall = "gameLoop"
    /\ from = "playing"
    /\ clock.afterResume > 0
    /\ clock.paused >= 150
    /\ deltaTime > 0
    /\ deltaTime < clock.paused

\* C14: the delta-time of every frame, and so of every Playing update, is at
\* most 0.1 s, whatever the gap between the frame's timestamp and lastTime.
C14_DeltaCapped ==
    lastCall = "gameLoop" => deltaTime <= maxDeltaTime

\* a Playing frame whose timestamp was more than 0.1 s after lastTime ran
\* with a delta-time of 0.1 s
C14_Witness ==
    /\ lastCall = "gameLoop"
    /\ from = "playing"
    /\ clock.gap > maxDeltaTime
    /\ deltaTime = maxDeltaTime

\* C15: a Playing frame whose computed delta-time is <= 0 leaves the level
\* timer, the spawn timers, the invincibility timer, the ship's position and
\* velocity and all entities as they were.
C15_DegenerateDeltaIgnored ==
    [][(PlayingFrame /\ deltaTime' <= 0) =>
          /\ UNCHANGED <<levelTime, asteroidTimer, coinTimer, asteroids, coins>>
          /\ ship'.y = ship.y
          /\ ship'.velocity = ship.velocity
          /\ ship'.invincibilityTimer = ship.invincibilityTimer]_vars

\* the part of C15 that the code meets: a Playing frame whose delta-time is
\* exactly 0 advances no timer and moves nothing (its collision pass still
\* runs)
ZeroDeltaFrameChangesNothing ==
    [][(PlayingFrame /\ deltaTime' = 0) =>
          /\ UNCHANGED <<levelTime, asteroidTimer, coinTimer>>
          /\ ship'.y = ship.y
          /\ ship'.invincibilityTimer > 0 => ship'.invincibilityTimer >= ship.invincibilityTimer
          /\ Len(asteroids') = Len(asteroids)
          /\ \A i \in 1..Len(asteroids) : asteroids'[i] = asteroids[i]
          /\ Len(coins') = Len(coins)
          /\ \A i \in 1..Len(coins) :
                coins'[i].x = coins[i].x /\ coins'[i].y = coins[i].y]_vars

\* a spaceship configuration the constructor should accept
ValidShipConfig(cfg) == cfg.speed >= 0 /\ cfg.lives > 0

\* a spawner configuration the constructor should accept
ValidSpawnerConfig(cfg) == cfg.spawnInterval > 0

\* C16: a spaceship or a spawner exists only for a valid configuration (no
\* negative speed, no zero or negative spawn interval), so no update ever runs
\* on an object constructed from an invalid one.
C16_InvalidConfigRejected ==
    /\ ship # NullShip => ValidShipConfig(config.spaceship)
    /\ lastCall = "asteroidSpawner.update" => ValidSpawnerConfig(config.asteroid)
    /\ lastCall = "coinSpawner.update" => ValidSpawnerConfig(config.coin)

\* C20: a call of a spawner's update(dt, level) returns exactly one entity and
\* sets the timer to 0 when the timer plus dt has reached the interval adjusted
\* for the level, however many intervals have passed; otherwise it returns
\* nothing and the timer has grown by dt.
C20_AtMostOneSpawnPerUpdate ==
    [][/\ lastCall' = "asteroidSpawner.update" =>
            LET t == asteroidTimer + deltaTime' IN
            IF t * 100 >= config.asteroid.spawnInterval * AsteroidLevelMultiplier(level')
            THEN ret' = 1 /\ Len(asteroids') = 1 /\ asteroidTimer' = 0
            ELSE ret' = 0 /\ asteroids' = <<>> /\ asteroidTimer' = t
       /\ lastCall' = "coinSpawner.update" =>
            LET t == coinTimer + deltaTime' IN
            IF t * 100 >= config.coin.spawnInterval * CoinLevelMultiplier(level')
            THEN ret' = 1 /\ Len(coins') = 1 /\ coinTimer' = 0
            ELSE ret' = 0 /\ coins' = <<>> /\ coinTimer' = t]_vars

\* an update whose dt covers more than two intervals has returned one asteroid
\* and left the timer at 0
C20_Witness ==
    /\ lastCall = "asteroidSpawner.update"
    /\ config.asteroid.spawnInterval > 0
    /\ deltaTime > 2 * config.asteroid.spawnInterval
    /\ ret = 1
    /\ Len(asteroids) = 1
    /\ asteroidTimer = 0

\* the active asteroids of as that overlap the hitbox of ship s
OverlappingAsteroids(s, as) ==
    {i \in 1..Len(as) : as[i].active /\ checkSpaceshipAsteroidCollision(s, as[i])}

\* C18: a Playing frame takes at most one life, however many active asteroids
\* overlap the ship, and makes no further hit() call once one has succeeded.
C18_OneLifePerFrame ==
    [][PlayingFrame =>
          /\ ship'.lives >= ship.lives - 1
          /\ events'.collision <= 1
          /\ events'.collision = 1 => events'.tried = 1]_vars

\* a frame has taken one life while two active asteroids overlapped the ship
C18_Witness ==
    /\ lastCall = "gameLoop"
    /\ events.collision = 1
    /\ Cardinality(OverlappingAsteroids(ship, asteroids)) >= 2

\* C19: a Playing frame leaves no active, uncollected coin overlapping the
\* ship's hitbox, and adds to the score the point values of all the coins it
\* collected, whether or not the ship was hit in the same frame.
C19_AllOverlappingCoinsCredited ==
    [][PlayingFrame =>
          /\ \A i \in 1..Len(coins') :
                (coins'[i].active /\ checkSpaceshipCoinCollision(ship', coins'[i]))
                    => coins'[i].collected
          /\ score' - score =
                JustCollectedPoints(coins', Len(coins'))
                - (IF deltaTime' = 0 THEN JustCollectedPoints(coins, Len(coins)) ELSE 0)]_vars

\* a frame in which the ship was hit has credited two coins
C19_Witness ==
    /\ lastCall = "gameLoop"
    /\ events.collision = 1
    /\ events.coin = 2
    /\ score = 2 * coinPoints

\* the floor of a spawner's multiplier, in hundredths
IntervalFloor(spawner) == IF spawner = "asteroid" THEN 40 ELSE 50

\* the base interval of a spawner (ms)
BaseInterval(spawner) ==
    IF spawner = "asteroid" THEN asteroidSpawnInterval ELSE coinSpawnInterval

\* C21: for each spawner the adjusted interval at a higher level is at most
\* the one at a lower level, and it is never below the base interval times the
\* spawner's floor (0.4 for obstacles, 0.5 for pickups).
C21_IntervalShrinksToFloor ==
    call.fn = "adjustedInterval" =>
        /\ call.atHi <= call.atLo
        /\ call.atHi >= BaseInterval(call.spawner) * IntervalFloor(call.spawner)
        /\ call.atLo >= BaseInterval(call.spawner) * IntervalFloor(call.spawner)

\* the obstacle spawner's interval at level 10 is smaller than at level 1, and
\* at level 25 it is at its floor
C21_Witness ==
    /\ call.fn = "adjustedInterval"
    /\ call.spawner = "asteroid"
    /\ call.lo = 10
    /\ call.hi = 25
    /\ call.atLo < AdjustedInterval(asteroidSpawnInterval, 100)
    /\ call.atHi = asteroidSpawnInterval * 40

\* C22: the level is at least 1; a Playing frame in which the level timer
\* reaches the level duration adds exactly 1 to the level and sets the timer
\* to 0, every other Playing frame leaves the level alone and adds the
\* delta-time to the timer; outside Playing frames the level changes only when
\* startGame begins a new game at level 1.
C22_LevelUpByOne ==
    /\ [](level >= 1)
    /\ [][PlayingFrame =>
             IF levelTime + deltaTime' >= levelDuration
             THEN level' = level + 1 /\ levelTime' = 0
             ELSE level' = level /\ levelTime' = levelTime + deltaTime']_vars
    /\ [][(level' # level /\ ~PlayingFrame) =>
             /\ lastCall' \in {"click", "keydown"}
             /\ state' = "playing"
             /\ frames' = 0
             /\ level' = 1]_vars

\* a frame has just taken the game from level 1 to level 2
C22_Witness ==
    /\ lastCall = "gameLoop"
    /\ events.levelUp = 1
    /\ level = 2
    /\ levelTime = 0
    /\ frames * maxDeltaTime = levelDuration

\* the level duration the README announces (ms)
DocumentedLevelDuration == 45000

\* C23: the level goes up in the Playing frame in which 45 s of play time
\* have accumulated since the last level-up or the game start.
C23_LevelUpEvery45Seconds ==
    [][(/\ PlayingFrame
        /\ levelTime < DocumentedLevelDuration
        /\ levelTime + deltaTime' >= DocumentedLevelDuration) =>
          level' = level + 1]_vars

\* the four strict comparisons of the overlap test
StrictOnAllSides(a, b) ==
    /\ a.x < b.x + b.width
    /\ a.x + a.width > b.x
    /\ a.y < b.y + b.height
    /\ a.y + a.height > b.y

\* some point lies strictly inside both rectangles; the coordinates are
\* integers, so a point with half-integer coordinates does (px, py are twice
\* the point's coordinates)
ShareInteriorPoint(a, b) ==
    \E px, py \in 0..(2 * (GridMax + 2)) :
        /\ 2 * a.x < px /\ px < 2 * (a.x + a.width)
        /\ 2 * b.x < px /\ px < 2 * (b.x + b.width)
        /\ 2 * a.y < py /\ py < 2 * (a.y + a.height)
        /\ 2 * b.y < py /\ py < 2 * (b.y + b.height)

\* C24: checkAABBCollision(a, b) is true exactly when the four strict
\* comparisons hold, that is when the rectangles share an interior point;
\* rectangles that only share an edge or a corner do not collide.
C24_StrictOverlap ==
    call.fn = "checkAABBCollision" =>
        /\ call.result = StrictOnAllSides(call.a, call.b)
        /\ call.result = ShareInteriorPoint(call.a, call.b)

\* two rectangles that share an edge have been tested and do not collide
C24_Witness ==
    /\ call.fn = "checkAABBCollision"
    /\ call.a = [x |-> 0, y |-> 0, width |-> 2, height |-> 2]
    /\ call.b = [x |-> 2, y |-> 0, width |-> 2, height |-> 2]
    /\ ~call.result

\* the points of the closed rectangle with integer coordinates
RectPoints(rect) ==
    (rect.x..(rect.x + rect.width)) \X (rect.y..(rect.y + rect.height))

\* the squared distance of point p from the centre of the circle
SquaredDistance(circle, p) ==
    (circle.x - p[1]) * (circle.x - p[1]) + (circle.y - p[2]) * (circle.y - p[2])

\* the circle's centre clamped to the rectangle
Clamped(circle, rect) ==
    <<Max(rect.x, Min(circle.x, rect.x + rect.width)),
      Max(rect.y, Min(circle.y, rect.y + rect.height))>>

\* C28: checkCircleRectCollision(circle, rect) is true exactly when some point
\* of the closed rectangle is at squared distance < radius^2 from the centre;
\* the clamped point is a point of the rectangle and no point of it is nearer.
C28_NearestPointTest ==
    call.fn = "checkCircleRectCollision" =>
        /\ call.result =
              (\E p \in RectPoints(call.rect) :
                  SquaredDistance(call.circle, p) < call.circle.radius * call.circle.radius)
        /\ Clamped(call.circle, call.rect) \in RectPoints(call.rect)
        /\ \A p \in RectPoints(call.rect) :
              SquaredDistance(call.circle, Clamped(call.circle, call.rect))
                  <= SquaredDistance(call.circle, p)

\* a circle whose centre is outside the rectangle, diagonally off its corner,
\* reaches into it
C28_Witness ==
    /\ call.fn = "checkCircleRectCollision"
    /\ call.circle = [x |-> -1, y |-> -1, radius |-> 2]
    /\ call.rect = [x |-> 0, y |-> 0, width |-> 2, height |-> 2]
    /\ call.result

\* C25 as stated: shifting the circle and the rectangle by the same offset
\* never changes the result of checkCircleRectCollision.
C25_TranslationInvariant ==
    call.fn = "translated" => call.shifted = call.result

\* C25: shifting the circle and the rectangle by the same offset does not
\* change the result of checkCircleRectCollision when the shifted coordinates
\* and the sums, differences and products of the test are computed without
\* rounding; and on exact numbers the test is invariant under every shift.
C25_TranslationInvariantWhenExact ==
    call.fn = "translated" =>
        /\ call.exact => call.shifted = call.result
        /\ checkCircleRectCollision(call.circle, call.rect)
             = checkCircleRectCollision(
                   [call.circle EXCEPT !.x = @ + call.offset[1],
                                       !.y = @ + call.offset[2]],
                   [call.rect EXCEPT !.x = @ + call.offset[1],
                                     !.y = @ + call.offset[2]])

\* two overlapping shapes have been shifted by a nonzero offset without any
\* rounding and still overlap
C25_Witness ==
    /\ call.fn = "translated"
    /\ call.exact
    /\ call.offset = <<1, 4>>
    /\ call.result
    /\ call.shifted
    /\ call.circle.x < call.rect.x

\* ship s with neither movement flag set
WithoutInput(s) == [s EXCEPT !.moveUp = FALSE, !.moveDown = FALSE]

\* C26: an update of a ship with both moveUp and moveDown set moves it exactly
\* as an update with neither flag set does: the velocity goes toward 0 by the
\* deceleration and never away from it, and the position follows it.
C26_BothFlagsNoInput ==
    [][(lastCall' = "update" /\ ship.moveUp /\ ship.moveDown) =>
          /\ \E dt \in ShipDts :
                WithoutInput(ship') = ShipUpdate(WithoutInput(ship), dt)
          /\ ship'.moveUp /\ ship'.moveDown
          /\ (ship'.y > ShipMargin /\ ship'.y < Px(ship'.canvasHeight) - ShipMargin) =>
                /\ Abs(ship'.velocity) <= Abs(ship.velocity)
                /\ ship'.velocity * ship.velocity >= 0]_vars

\* a moving ship with both flags set has been updated and is still slowing
\* down
C26_Witness ==
    /\ lastCall = "update"
    /\ ship.moveUp
    /\ ship.moveDown
    /\ ship.velocity < 0
    /\ ship.velocity > -ship.maxSpeed
    /\ ship.y > ShipMargin

\* C27: a Playing frame raises one collision notification per life it takes,
\* one coin notification per pickup it credits, one levelUp notification per
\* level it adds and one gameOver notification if it ends the game, and none
\* of a kind whose event did not occur in it; no other step raises any.
C27_OneNotificationPerEvent ==
    /\ [][PlayingFrame =>
             /\ events'.collision = ship.lives - ship'.lives
             /\ events'.coin * coinPoints = score' - score
             /\ events'.levelUp = level' - level
             /\ events'.gameOver = (IF state' = "gameover" THEN 1 ELSE 0)]_vars
    /\ [][~PlayingFrame =>
             /\ events'.collision = 0
             /\ events'.coin = 0
             /\ events'.levelUp = 0
             /\ events'.gameOver = 0]_vars

\* one frame has taken the last life, credited two coins, raised the level
\* and ended the game, with one notification for each
C27_Witness ==
    /\ lastCall = "gameLoop"
    /\ events.collision = 1
    /\ events.coin = 2
    /\ events.levelUp = 1
    /\ events.gameOver = 1
    /\ state = "gameover"
    /\ level = 2
    /\ ship.lives = 0

\* C29: when no frame's timestamp precedes the previous frame's or the time
\* resumeGame stamped, the delta-time of every frame, and so of every Playing
\* update, is >= 0 under every interleaving of frames, pauses and resumes.
C29_DeltaNeverNegative ==
    lastCall = "gameLoop" => deltaTime >= 0

\* the first Playing frame after a pause came at the very time of the resume
\* and ran with a delta-time of 0
C29_Witness ==
    /\ lastCall = "gameLoop"
    /\ from = "playing"
    /\ clock.paused > 0
    /\ clock.afterResume = 0
    /\ deltaTime = 0

\* a step in which the ship loses a life
LifeLost == ~ship.null /\ ~ship'.null /\ ship'.lives < ship.lives

\* C30: a life is lost one at a time and only in a Playing frame, and when it
\* is not the first loss of the game, the delta-times of the Playing frames
\* since the previous loss, this frame's included, sum to at least the
\* invincibility duration.
C30_LossesAnInvincibilityApart ==
    [][LifeLost =>
         /\ PlayingFrame
         /\ ship'.lives = ship.lives - 1
         /\ sinceHit >= 0 => sinceHit + deltaTime' >= invincibilityTime]_vars

\* the second life of a game has just been lost
C30_Witness ==
    /\ lastCall = "gameLoop"
    /\ from = "playing"
    /\ events.collision = 1
    /\ ship.lives = lives - 2
    /\ sinceHit = 0

\* C31: under update (dt >= 0), hit and reset, with the configured positive
\* invincibility duration, the ship is invincible exactly when its
\* invincibility timer is positive.
C31_InvincibleIffTimerPositive ==
    ship.isInvincible <=> ship.invincibilityTimer > 0

\* an update has just run the timer of a hit ship down to the end of the
\* window and cleared the flag
C31_Witness ==
    /\ lastCall = "update"
    /\ sinceHit = invincibilityTime
    /\ ship.lives < ship.maxLives
    /\ ~ship.isInvincible
    /\ ship.invincibilityTimer = 0

\* every entity of the list is active
AllActive(es) == \A i \in 1..Len(es) : es[i].active

\* C32: at the end of every Playing frame every asteroid and coin in the
\* game's lists is active, and the lists the collision pass of the frame was
\* given held no inactive entity, so none was tested, hit or collected.
C32_LiveEntitiesActive ==
    (lastCall = "gameLoop" /\ from = "playing") =>
        /\ AllActive(asteroids)
        /\ AllActive(coins)
        /\ events.stale = 0

\* a Playing frame has pruned an entity and left a collected coin, still
\* animating, in the list
C32_Witness ==
    /\ lastCall = "gameLoop"
    /\ from = "playing"
    /\ events.pruned > 0
    /\ \E i \in 1..Len(coins) : coins[i].collected /\ coins[i].active

\* the asteroid is past the left edge by more than twice its size
OffScreen(a) == a.x < -(a.size * 2)

\* C33: an update that leaves an asteroid at x < -2 * size leaves it inactive,
\* so that the filter of its frame drops it; an update that leaves an active
\* asteroid at x >= -2 * size leaves it active; and no update makes an inactive
\* asteroid active again.
C33_DeactivatedOffScreenOnly ==
    [][lastCall' = "update" =>
         LET before == asteroids[1]
             after  == asteroids'[1]
         IN  /\ OffScreen(after) => ~after.active /\ Prune(asteroids') = <<>>
             /\ (before.active /\ ~OffScreen(after)) =>
                    after.active /\ Prune(asteroids') = asteroids'
             /\ ~before.active => ~after.active]_vars

\* an update with a negative deltaTime has moved an inactive asteroid back to
\* x >= -2 * size
C33_Witness ==
    /\ lastCall = "update"
    /\ ~asteroids[1].active
    /\ ~OffScreen(asteroids[1])

\* the last call was an update of the lists that filtered out the entity at
\* the head of the asteroid list
AsteroidHeadLeft == call.fn = "updateLists" /\ call.asteroidHead

\* the same for the coin list
CoinHeadLeft == call.fn = "updateLists" /\ call.coinHead

\* C34: while frames with a deltaTime of at least 50 ms keep coming, every
\* spawned asteroid and coin is eventually filtered out of its list. The lists
\* keep their order, so an entity that stayed for ever would end up at the
\* head of its list for ever: again and again each list is empty or has just
\* lost the entity at its head.
C34_EveryEntityLeaves ==
    /\ []<>(asteroids = <<>> \/ AsteroidHeadLeft)
    /\ []<>(coins = <<>> \/ CoinHeadLeft)

\* one update has filtered out the asteroid at the head of its list, having
\* scrolled off, and a coin that finished its collection animation
C34_Witness ==
    /\ AsteroidHeadLeft
    /\ call.animated

\* C35: with the configured maxSpeed of 400, the magnitude of the ship's
\* velocity never exceeds maxSpeed, over every interleaving of input changes,
\* updates (dt >= 0), hits, resets and boundary bounces.
C35_VelocityWithinMaxSpeed ==
    Abs(ship.velocity) <= ship.maxSpeed

\* a ship that was hit, and knocked upward, has since been steered down to
\* the full maxSpeed by an update
C35_Witness ==
    /\ lastCall = "update"
    /\ ship.lives < ship.maxLives
    /\ ship.moveDown
    /\ ship.velocity = ship.maxSpeed

\* speed * (1 + (L - 1) * 0.1) * dt, for a speed in 1/100 pixel per second
\* and dt in ms
LeftBy(spd, L, dt) == TruncDiv(spd * (10 + (L - 1)) * dt, 10000)

\* C36: in a Playing frame that runs at level L (the level after the frame's
\* level step) every asteroid and every uncollected coin moves left by
\* speed * (1 + (L - 1) * 0.1) * dt, the same multiplier for both kinds, and a
\* coin collected before the frame does not move. The entities are compared
\* by position in the lists, in frames that filter nothing out.
C36_UniformLevelSpeed ==
    [][(PlayingFrame /\ events'.pruned = 0) =>
         /\ \A i \in 1..Len(asteroids) :
                asteroids'[i].x
                    = asteroids[i].x - LeftBy(asteroids[i].speed, level', deltaTime')
         /\ \A i \in 1..Len(coins) :
                coins'[i].x
                    = IF coins[i].collected
                      THEN coins[i].x
                      ELSE coins[i].x - LeftBy(coins[i].speed, level', deltaTime')]_vars

\* the frame of a level-up has moved an asteroid and an uncollected coin by
\* the multiplier of level 2 and has left a collected coin where it was
C36_Witness ==
    /\ lastCall = "gameLoop"
    /\ from = "playing"
    /\ deltaTime > 0
    /\ events.levelUp = 1
    /\ level = 2
    /\ events.pruned = 0
    /\ asteroids # <<>>
    /\ Len(coins) = 2
    /\ coins[1].collected /\ coins[1].collectAnimation > 0
    /\ coins[2].x < Px(110)

\* the margin a spawner keeps from the top and the bottom of the canvas:
\* size + 20 for an asteroid, size + 50 for a coin
SpawnMargin(c) ==
    c.entity.size + (IF c.spawner = "asteroid" THEN Px(20) ELSE Px(50))

\* what spawn settles without regard to the canvas height: the entity is
\* active, just past the right edge, of a size in the configured range
\* (asteroids) or of the configured size (coins), at the speed of its level
SpawnedAsConfigured(c) ==
    LET e == c.entity IN
    /\ e.active
    /\ e.x = Px(c.canvasWidth) + e.size
    /\ IF c.spawner = "asteroid"
       THEN /\ e.size >= Px(minSize) /\ e.size <= Px(maxSize)
            /\ e.speed = Px(asteroidBaseSpeed
                            + (c.level - 1) * asteroidSpeedIncreasePerLevel)
       ELSE /\ e.size = Px(coinSize)
            /\ e.speed = Px(coinBaseSpeed + (c.level - 1) * coinSpeedIncreasePerLevel)

\* y is within [margin, canvasHeight - margin]
InBand(c) ==
    /\ c.entity.y >= SpawnMargin(c)
    /\ c.entity.y <= Px(c.canvasHeight) - SpawnMargin(c)

\* C37 as stated: every spawned entity is as configured and its y is within
\* [margin, canvasHeight - margin].
C37_SpawnedInBand ==
    call.fn = "spawn" => SpawnedAsConfigured(call) /\ InBand(call)

\* C37 (as the code computes y): every spawned entity is as configured; its y
\* is within [margin, canvasHeight - margin] when the canvas is at least
\* 2 * margin high, and within [canvasHeight - margin, margin] when it is not.
C37_SpawnedInBandWhenItExists ==
    call.fn = "spawn" =>
        /\ SpawnedAsConfigured(call)
        /\ IF Px(call.canvasHeight) >= 2 * SpawnMargin(call)
           THEN InBand(call)
           ELSE /\ call.entity.y <= SpawnMargin(call)
                /\ call.entity.y >= Px(call.canvasHeight) - SpawnMargin(call)

\* an asteroid spawned above level 1, larger than the minimum, strictly
\* inside the band of a canvas that has one
C37_Witness ==
    /\ call.fn = "spawn"
    /\ call.spawner = "asteroid"
    /\ call.level > 1
    /\ call.entity.size > Px(minSize)
    /\ call.entity.y > SpawnMargin(call)
    /\ call.entity.y < Px(call.canvasHeight) - SpawnMargin(call)

\* C38: when the velocity an update has steered to carries the ship past the
\* top (bottom) margin, the update leaves y at that margin and the velocity at
\* 0.3 times the magnitude of that pre-clamp velocity, pointing down (up): back
\* into the play field, and not zero.
C38_SoftBounce ==
    [][lastCall' = "update" =>
         \A dt \in ShipDts :
             ship' = ShipUpdate(ship, dt) =>
                 LET v      == SteerVelocity(ship, dt)
                     y      == ship.y + TruncDiv(v * dt, 1000)
                     bottom == Px(ship.canvasHeight) - ShipMargin
                 IN  /\ y < ShipMargin =>
                            /\ ship'.y = ShipMargin
                            /\ ship'.velocity = (Abs(v) * 3) \div 10
                            /\ ship'.velocity > 0
                     /\ y > bottom =>
                            /\ ship'.y = bottom
                            /\ ship'.velocity = -((Abs(v) * 3) \div 10)
                            /\ ship'.velocity < 0]_vars

\* an update has carried a ship steered upward at full speed past the top
\* margin and bounced it back at 0.3 of maxSpeed
C38_Witness ==
    /\ lastCall = "update"
    /\ ship.moveUp
    /\ ~ship.moveDown
    /\ ship.y = ShipMargin
    /\ ship.velocity = (ship.maxSpeed * 3) \div 10

\* the ship has no net input: neither flag is set, or both are
NoNetInput(s) == s.moveUp = s.moveDown

\* velocity v moved toward zero by deceleration * dt, stopping at zero
Coasted(v, dt) ==
    LET d == (Px(deceleration) * dt) \div 1000 IN
    IF v > 0 THEN (IF v - d < 0 THEN 0 ELSE v - d)
    ELSE IF v < 0 THEN (IF v + d > 0 THEN 0 ELSE v + d)
    ELSE 0

\* C39 as stated: every update of a ship with no net input leaves the
\* velocity moved toward zero by deceleration * dt, at exactly 0 if it would
\* cross zero, and never of the opposite sign.
C39_CoastsTowardZero ==
    [][(lastCall' = "update" /\ NoNetInput(ship)) =>
         \A dt \in ShipDts :
             ship' = ShipUpdate(ship, dt) =>
                 /\ ship'.velocity = Coasted(ship.velocity, dt)
                 /\ ship'.velocity * ship.velocity >= 0]_vars

\* C39 (with the boundary step of the same update): an update of a ship with
\* no net input moves the velocity toward zero by deceleration * dt, to
\* exactly 0 if it would cross zero; that is the velocity the update ends
\* with unless it carries the ship past a margin, where the update ends with
\* 0.3 of its magnitude, directed back into the play field.
C39_CoastsTowardZeroUnlessBounced ==
    [][(lastCall' = "update" /\ NoNetInput(ship)) =>
         \A dt \in ShipDts :
             ship' = ShipUpdate(ship, dt) =>
                 LET v      == Coasted(ship.velocity, dt)
                     y      == ship.y + TruncDiv(v * dt, 1000)
                     bottom == Px(ship.canvasHeight) - ShipMargin
                 IN  /\ v * ship.velocity >= 0
                     /\ Abs(v) <= Abs(ship.velocity)
                     /\ ship'.velocity =
                            IF y < ShipMargin THEN (Abs(v) * 3) \div 10
                            ELSE IF y > bottom THEN -((Abs(v) * 3) \div 10)
                            ELSE v]_vars

\* a ship knocked back by a hit has coasted, in two updates and with no
\* input, to a velocity of exactly 0, short of the top margin
C39_Witness ==
    /\ lastCall = "update"
    /\ ~ship.moveUp
    /\ ~ship.moveDown
    /\ ship.lives < ship.maxLives
    /\ sinceHit = 200
    /\ ship.velocity = 0
    /\ ship.y > ShipMargin
    /\ ship.y < Px(ship.canvasHeight) \div 2

\* C40 as stated: the ship's deceleration rate is greater than its acceleration rate,
\* so for the same dt the velocity magnitude drops faster when coasting than
\* it grows when accelerating: the speed an update gains from rest under a
\* directional input, short of maxSpeed and of the margins, is lost entirely
\* by an update of the same dt with no input.
C40_CoastingOutpacesAccelerating ==
    [][(lastCall' = "update" /\ ship.velocity = 0 /\ ship.moveUp # ship.moveDown) =>
         \A dt \in ShipDts :
             (/\ ship' = ShipUpdate(ship, dt)
              /\ Abs(ship'.velocity) < ship.maxSpeed
              /\ ship'.y > ShipMargin
              /\ ship'.y < Px(ship.canvasHeight) - ShipMargin) =>
                 SteerVelocity(WithoutInput(ship'), dt) = 0]_vars

\* C40 (with the rates of the constructor): in an update that ends short of
\* the margins, a directional input changes the velocity by 2000 * dt unless
\* the clamp to maxSpeed cuts it, and no net input takes 1500 * dt off its
\* magnitude unless it stops at zero; for the same dt > 0 the magnitude drops
\* by less when coasting than it grows when accelerating.
C40_CoastingSlowerThanAccelerating ==
    [][lastCall' = "update" =>
         \A dt \in ShipDts :
             (/\ ship' = ShipUpdate(ship, dt)
              /\ ship'.y > ShipMargin
              /\ ship'.y < Px(ship.canvasHeight) - ShipMargin) =>
                 LET gain == (2000 * 100 * dt) \div 1000
                     drop == (1500 * 100 * dt) \div 1000
                 IN  /\ dt > 0 => drop < gain
                     /\ (~NoNetInput(ship) /\ Abs(ship'.velocity) < ship.maxSpeed) =>
                            Abs(ship'.velocity - ship.velocity) = gain
                     /\ (NoNetInput(ship) /\ ship'.velocity # 0) =>
                            Abs(ship.velocity) - Abs(ship'.velocity) = drop]_vars

\* a ship knocked back at 200 by a hit has coasted for 100 ms with no input
\* and still moves at 50: the update took 150 off, where an input would have
\* added 200
C40_Witness ==
    /\ lastCall = "update"
    /\ ~ship.moveUp
    /\ ~ship.moveDown
    /\ sinceHit = 100
    /\ ship.velocity = -Px(50)
    /\ ship.y > ShipMargin

============================================================================
